---- MODULE Spec2Model ----
(***************************************************************************)
(* A model of the two translation drivers of the repository:               *)
(*   translate_code_comments_pl.py  (comments inside <code> elements)      *)
(*   translate_learncpp_pl.py       (prose text and attributes)            *)
(*                                                                         *)
(* Text is a sequence of characters.  A character is a one-character       *)
(* string; a character outside ASCII is written by its code point, as      *)
(* "U+0105".  Offsets into a text are 0-based, as in the source, and       *)
(* Slice(s, a, b) is the Python slice s[a:b].                              *)
(***************************************************************************)
EXTENDS Integers, Sequences, FiniteSets, TLC

\* ------------------------------------------------------------------------
\* Python's built-in string operations
\* ------------------------------------------------------------------------

Min(S) == CHOOSE x \in S : \A y \in S : x <= y

Max(S) == CHOOSE x \in S : \A y \in S : x >= y

\* s[a:b]
Slice(s, a, b) == SubSeq(s, a + 1, b)

\* s.find(pat, from): the lowest offset >= from at which pat occurs, or -1
Find(s, pat, from) ==
    LET hits == {i \in from..(Len(s) - Len(pat)) :
                    \A k \in 1..Len(pat) : s[i + k] = pat[k]}
    IN  IF hits = {} THEN -1 ELSE Min(hits)

\* pat in s
Contains(s, pat) == Find(s, pat, 0) # -1

\* s.startswith(pat)
startswith(s, pat) == Len(s) >= Len(pat) /\ Slice(s, 0, Len(pat)) = pat

\* s.endswith(pat)
endswith(s, pat) == Len(s) >= Len(pat) /\ Slice(s, Len(s) - Len(pat), Len(s)) = pat

RECURSIVE Concat(_)
\* "".join(parts)
Concat(parts) == IF parts = <<>> THEN <<>> ELSE Head(parts) \o Concat(Tail(parts))

\* ------------------------------------------------------------------------
\* Character classes of the regular expressions and of str's predicates
\* ------------------------------------------------------------------------

LowerSeq == <<"a","b","c","d","e","f","g","h","i","j","k","l","m",
              "n","o","p","q","r","s","t","u","v","w","x","y","z">>

Digits10 == <<"0","1","2","3","4","5","6","7","8","9">>

UpperSeq == <<"A","B","C","D","E","F","G","H","I","J","K","L","M",
              "N","O","P","Q","R","S","T","U","V","W","X","Y","Z">>

\* [A-Za-z]
AsciiLetters == {LowerSeq[i] : i \in 1..26} \cup {UpperSeq[i] : i \in 1..26}

\* [0-9]
Digits == {"0","1","2","3","4","5","6","7","8","9"}

\* the character class of PL_CHARS_RE: the Polish diacritic letters
PL_CHARS ==
    {"U+0105", "U+0107", "U+0119", "U+0142", "U+0144", "U+00F3", "U+015B", "U+017A", "U+017C",
     "U+0104", "U+0106", "U+0118", "U+0141", "U+0143", "U+00D3", "U+015A", "U+0179", "U+017B"}

\* the letters of MOJIBAKE_RE's alternatives: A-tilde, A-circumflex, a-circumflex
MojibakeLetters == {"U+00C3", "U+00C2", "U+00E2"}

\* \s, and the characters str.strip() removes
Whitespace == {" ", "\t", "\n", "\r", "\f"}

\* str.isalpha(), on the characters of the model
isalpha(c) == c \in AsciiLetters \cup PL_CHARS \cup MojibakeLetters

\* \w: the characters on the word side of \b
WordChar(c) == isalpha(c) \/ c \in Digits \/ c = "_"

\* c.lower()
lower_ch(c) ==
    IF \E i \in 1..26 : UpperSeq[i] = c
    THEN LowerSeq[CHOOSE i \in 1..26 : UpperSeq[i] = c]
    ELSE c

\* s.lower(); it also stands for re.IGNORECASE on ASCII patterns
lower(s) == [i \in 1..Len(s) |-> lower_ch(s[i])]

\* the length of the longest prefix of s matched by \s*
LeadLen(s) == Min({i \in 0..Len(s) : i = Len(s) \/ s[i + 1] \notin Whitespace})

\* the length of the longest suffix of s matched by \s*$
TrailLen(s) == Min({k \in 0..Len(s) : k = Len(s) \/ s[Len(s) - k] \notin Whitespace})

\* s.strip()
strip(s) == Slice(s, LeadLen(s), Len(s) - TrailLen(s))

\* ------------------------------------------------------------------------
\* translate_code_comments_pl.py: the Translatability Classifier
\* ------------------------------------------------------------------------

EN_HINT_WORDS == {
    <<"a">>, <<"a","n">>, <<"a","n","d">>, <<"a","r","e">>, <<"a","s">>, <<"b","e">>,
    <<"b","e","c","a","u","s","e">>, <<"b","e","f","o","r","e">>, <<"b","o","t","h">>,
    <<"b","u","t">>, <<"c","a","l","l">>, <<"c","a","l","l","e","d">>, <<"c","a","n">>,
    <<"c","l","a","s","s">>, <<"c","o","p","y">>, <<"c","r","e","a","t","e">>,
    <<"c","r","e","a","t","e","d">>, <<"c","r","e","a","t","i","n","g">>,
    <<"d","e","s","t","r","o","y","e","d">>, <<"d","i","r","e","c","t","l","y">>,
    <<"d","o","e","s">>, <<"e","a","c","h">>, <<"e","l","s","e">>,
    <<"e","x","a","m","p","l","e">>, <<"f","o","r">>, <<"f","r","o","m">>,
    <<"f","u","n","c","t","i","o","n">>, <<"g","e","t">>, <<"h","e","r","e">>, <<"i","f">>,
    <<"i","n">>, <<"i","s">>, <<"i","t">>, <<"l","a","t","e","r">>, <<"l","e","g","a","l">>,
    <<"l","i","n","e">>, <<"l","o","o","p">>, <<"m","a","k","e">>, <<"n","a","m","e">>,
    <<"n","e","w">>, <<"n","o","t">>, <<"n","o","w">>, <<"o","b","j","e","c","t">>,
    <<"o","b","j","e","c","t","s">>, <<"o","n","l","y">>, <<"o","r">>, <<"o","v","e","r">>,
    <<"p","o","i","n","t","e","r">>, <<"p","r","e","v","e","n","t">>, <<"p","r","i","n","t">>,
    <<"r","e","f","e","r","e","n","c","e">>, <<"r","e","f","e","r","e","n","c","e","s">>,
    <<"s","e","t">>, <<"s","t","e","p">>, <<"s","t","i","l","l">>, <<"s","t","r","i","n","g">>,
    <<"t","h","a","t">>, <<"t","h","e">>, <<"t","h","e","s","e">>, <<"t","h","i","s">>,
    <<"t","h","o","s","e">>, <<"t","h","r","o","u","g","h">>, <<"t","o">>, <<"t","r","u","e">>,
    <<"u","s","e">>, <<"u","s","e","d">>, <<"u","s","i","n","g">>, <<"v","a","l","u","e">>,
    <<"v","a","l","u","e","s">>, <<"w","e">>, <<"w","h","e","n">>, <<"w","h","e","r","e">>,
    <<"w","h","i","c","h">>, <<"w","h","i","l","e">>, <<"w","i","t","h">>, <<"y","o","u">>,
    <<"y","o","u","r">> }

split_ws(text) ==
    LET lead  == Slice(text, 0, LeadLen(text))
        trail == Slice(text, Len(text) - TrailLen(text), Len(text))
        core  == Slice(text, Len(lead),
                       IF Len(trail) > 0 THEN Len(text) - Len(trail) ELSE Len(text))
    IN  [lead |-> lead, core |-> core, trail |-> trail]

RECURSIVE WordsFrom(_, _)
\* the matches of [A-Za-z]{2,} in s from offset i on: the maximal runs of
\* ASCII letters that are at least two letters long
WordsFrom(s, i) ==
    IF i >= Len(s) THEN <<>>
    ELSE IF s[i + 1] \notin AsciiLetters THEN WordsFrom(s, i + 1)
    ELSE LET j == Min({k \in (i + 1)..Len(s) : k = Len(s) \/ s[k + 1] \notin AsciiLetters})
         IN  IF j - i >= 2 THEN <<Slice(s, i, j)>> \o WordsFrom(s, j)
                           ELSE WordsFrom(s, j)

\* WORD_RE.findall(s)
WORD_RE_findall(s) == WordsFrom(s, 0)

\* URL_RE.search(t), of the comment driver: (https?://|www\.), ignoring case
URL_RE_search(t) ==
    LET l == lower(t)
    IN  \/ Contains(l, <<"h","t","t","p",":","/","/">>)
        \/ Contains(l, <<"h","t","t","p","s",":","/","/">>)
        \/ Contains(l, <<"w","w","w",".">>)

\* PL_CHARS_RE.search(t)
PL_CHARS_RE_search(t) == \E i \in 1..Len(t) : t[i] \in PL_CHARS

\* re.search(r"\b[A-Za-z_][A-Za-z0-9_]*\s*\(", text): an identifier that
\* starts at a word boundary, then white space, then "("
CallLike(text) ==
    \E p \in 1..Len(text), q \in 1..Len(text) :
        /\ p < q
        /\ text[q] = "("
        /\ text[p] \in AsciiLetters \cup {"_"}
        /\ (p = 1 \/ ~WordChar(text[p - 1]))
        /\ \E m \in (p + 1)..q :
              /\ \A k \in (p + 1)..(m - 1) : text[k] \in AsciiLetters \cup Digits \cup {"_"}
              /\ \A k \in m..(q - 1) : text[k] \in Whitespace

is_mostly_code_like(text) ==
    IF Contains(text, <<":", ":">>) THEN TRUE
    ELSE IF \/ Contains(text, <<"<">>) \/ Contains(text, <<">">>)
            \/ Contains(text, <<"{">>) \/ Contains(text, <<"}">>) THEN TRUE
    ELSE IF Contains(text, <<";">>) \/ Contains(text, <<"-", ">">>) THEN TRUE
    ELSE IF CallLike(text) THEN TRUE
    ELSE FALSE

\* english_score(text) = (hits, len(words))
english_score(text) ==
    LET words == WORD_RE_findall(text)
        hits  == Cardinality({i \in 1..Len(words) : lower(words[i]) \in EN_HINT_WORDS})
    IN  IF words = <<>> THEN [hits |-> 0, total |-> 0]
        ELSE [hits |-> hits, total |-> Len(words)]

\* sum(ch.isalpha() for ch in t)
LetterCount(t) == Cardinality({i \in 1..Len(t) : isalpha(t[i])})

looks_english(text) ==
    LET t     == strip(text)
        score == english_score(t)
    IN  IF t = <<>> \/ PL_CHARS_RE_search(t) THEN FALSE
        ELSE IF score.hits >= 2 THEN TRUE
        ELSE IF score.total >= 6 /\ score.hits >= 1 THEN TRUE
        ELSE /\ score.total >= 8
             /\ score.hits >= 1
             /\ LetterCount(t) * 100 > 55 * Max({Len(t), 1})

\* the longest comment fragment that is translated (len(t) > 500 is rejected)
MaxCommentLen == 500

\* the shortest comment fragment that is translated (len(t) < 3 is rejected)
MinCommentLen == 3

\* should_translate_comment rejecting every code-like fragment of at most
\* eight words, whether or not it holds a hint word (line 163 without
\* "english_hits == 0")
should_translate_comment_code_first(core) ==
    LET t            == strip(core)
        words        == WORD_RE_findall(t)
        english_hits == english_score(t).hits
        letters      == LetterCount(t)
        denom        == Max({Len(t), 1})
    IN  IF t = <<>> THEN FALSE
        ELSE IF Len(t) < MinCommentLen \/ Len(t) > MaxCommentLen THEN FALSE
        ELSE IF URL_RE_search(t) THEN FALSE
        ELSE IF PL_CHARS_RE_search(t) THEN FALSE
        ELSE IF words = <<>> THEN FALSE
        ELSE IF is_mostly_code_like(t) /\ Len(words) <= 8 THEN FALSE
        ELSE IF english_hits >= 1 THEN TRUE
        ELSE IF ~is_mostly_code_like(t) /\ Len(words) >= 3 /\ letters * 100 > 65 * denom THEN TRUE
        ELSE IF Len(words) >= 5 /\ letters * 100 > 55 * denom THEN TRUE
        ELSE FALSE

\* should_translate_comment rejecting a code-like fragment without hint
\* words only when it has at most four words (line 163 with 4 for 8)
should_translate_comment_four_words(core) ==
    LET t            == strip(core)
        words        == WORD_RE_findall(t)
        english_hits == english_score(t).hits
        letters      == LetterCount(t)
        denom        == Max({Len(t), 1})
    IN  IF t = <<>> THEN FALSE
        ELSE IF Len(t) < MinCommentLen \/ Len(t) > MaxCommentLen THEN FALSE
        ELSE IF URL_RE_search(t) THEN FALSE
        ELSE IF PL_CHARS_RE_search(t) THEN FALSE
        ELSE IF words = <<>> THEN FALSE
        ELSE IF is_mostly_code_like(t) /\ english_hits = 0 /\ Len(words) <= 4 THEN FALSE
        ELSE IF english_hits >= 1 THEN TRUE
        ELSE IF ~is_mostly_code_like(t) /\ Len(words) >= 3 /\ letters * 100 > 65 * denom THEN TRUE
        ELSE IF Len(words) >= 5 /\ letters * 100 > 55 * denom THEN TRUE
        ELSE FALSE

should_translate_comment(core) ==
    LET t            == strip(core)
        words        == WORD_RE_findall(t)
        english_hits == english_score(t).hits
        letters      == LetterCount(t)
        denom        == Max({Len(t), 1})
    IN  IF t = <<>> THEN FALSE
        ELSE IF Len(t) < MinCommentLen \/ Len(t) > MaxCommentLen THEN FALSE
        ELSE IF URL_RE_search(t) THEN FALSE
        ELSE IF PL_CHARS_RE_search(t) THEN FALSE
        ELSE IF words = <<>> THEN FALSE
        ELSE IF is_mostly_code_like(t) /\ english_hits = 0 /\ Len(words) <= 8 THEN FALSE
        ELSE IF english_hits >= 1 THEN TRUE
        ELSE IF ~is_mostly_code_like(t) /\ Len(words) >= 3 /\ letters * 100 > 65 * denom THEN TRUE
        ELSE IF Len(words) >= 5 /\ letters * 100 > 55 * denom THEN TRUE
        ELSE FALSE

\* MOJIBAKE_RE.search(tr): A-tilde or A-circumflex followed by any character
\* but a newline, or a-circumflex followed by the euro sign, or a-circumflex,
\* low double quote, cent sign
MOJIBAKE_RE_search(tr) ==
    \/ \E i \in 1..(Len(tr) - 1) : tr[i] \in {"U+00C3", "U+00C2"} /\ tr[i + 1] # "\n"
    \/ Contains(tr, <<"U+00E2", "U+20AC">>)
    \/ Contains(tr, <<"U+00E2", "U+201E", "U+00A2">>)

\* is_bad_translation without its echo rule (line 208)
is_bad_translation_no_echo(src_text, tr_text) ==
    LET src == strip(src_text)
        tr  == strip(tr_text)
    IN  IF tr = <<>> THEN TRUE
        ELSE IF MOJIBAKE_RE_search(tr) THEN TRUE
        ELSE IF looks_english(src) /\ looks_english(tr) THEN TRUE
        ELSE FALSE

\* is_bad_translation(source, translated), lines 201-213; the parameters are
\* written src_text and tr_text because source and translated are variables here
is_bad_translation(src_text, tr_text) ==
    LET src == strip(src_text)
        tr  == strip(tr_text)
    IN  IF tr = <<>> THEN TRUE
        ELSE IF MOJIBAKE_RE_search(tr) THEN TRUE
        ELSE IF src = tr /\ should_translate_comment(src) THEN TRUE
        ELSE IF looks_english(src) /\ looks_english(tr) THEN TRUE
        ELSE FALSE

\* ------------------------------------------------------------------------
\* translate_code_comments_pl.py: postprocess_translation
\* ------------------------------------------------------------------------

\* the lower-case Polish letters and, in the same order, the upper-case ones
PlLowerSeq ==
    <<"U+0105", "U+0107", "U+0119", "U+0142", "U+0144", "U+00F3", "U+015B", "U+017A", "U+017C">>

PlUpperSeq ==
    <<"U+0104", "U+0106", "U+0118", "U+0141", "U+0143", "U+00D3", "U+015A", "U+0179", "U+017B">>

\* re.IGNORECASE on a str pattern: the letter a character is matched as
fold_ch(c) ==
    IF \E i \in 1..9 : PlUpperSeq[i] = c
    THEN PlLowerSeq[CHOOSE i \in 1..9 : PlUpperSeq[i] = c]
    ELSE lower_ch(c)

casefold(s) == [i \in 1..Len(s) |-> fold_ch(s[i])]

\* the keywords of line 180, in the order of the loop
FIXUP_KEYWORDS ==
    << <<"i","f">>, <<"e","l","s","e">>, <<"s","w","i","t","c","h">>,
       <<"w","h","i","l","e">>, <<"f","o","r">> >>

\* "stwierdzenie" and "oswiadczenie" with its s-acute (line 182)
STATEMENT_SINGULAR ==
    { <<"s","t","w","i","e","r","d","z","e","n","i","e">>,
      <<"o","U+015B","w","i","a","d","c","z","e","n","i","e">> }

\* "stwierdzenia" and "oswiadczenia" with its s-acute (line 188)
STATEMENT_PLURAL ==
    { <<"s","t","w","i","e","r","d","z","e","n","i","a">>,
      <<"o","U+015B","w","i","a","d","c","z","e","n","i","a">> }

\* "instrukcja " and "instrukcje " (lines 183 and 189)
INSTRUKCJA == <<"i","n","s","t","r","u","k","c","j","a"," ">>

INSTRUKCJE == <<"i","n","s","t","r","u","k","c","j","e"," ">>

\* "nie zyje" and "nie zyja" with their Polish letters (lines 194 and 195)
NIE_ZYJE == <<"n","i","e"," ","U+017C","y","j","e">>

NIE_ZYJA == <<"n","i","e"," ","U+017C","y","j","U+0105">>

\* "jest martwy" and "sa martwe" with its a-ogonek
JEST_MARTWY == <<"j","e","s","t"," ","m","a","r","t","w","y">>

SA_MARTWE == <<"s","U+0105"," ","m","a","r","t","w","e">>

\* the number of characters \s* matches at offset i of t
WsRun(t, i) == Min({k \in 0..(Len(t) - i) : i + k = Len(t) \/ t[i + k + 1] \notin Whitespace})

\* \b<head>\s+<kw>\b, or \b<head>\b when kw is empty, matched at offset i of
\* t without regard to case, head being one of heads: the offset at which
\* the match ends, or -1
PhraseMatchEnd(t, i, heads, kw) ==
    LET n     == Len(t)
        found == {h \in heads : i + Len(h) <= n /\ fold_ch(t[i + 1]) = h[1]
                                /\ casefold(Slice(t, i, i + Len(h))) = h}
        a     == i + Len(CHOOSE h \in found : TRUE)
        b     == a + WsRun(t, a)
        e     == IF kw = <<>> THEN a ELSE b + Len(kw)
    IN  IF found = {} \/ (i > 0 /\ WordChar(t[i])) THEN -1
        ELSE IF kw # <<>> /\ (b = a \/ e > n) THEN -1
        ELSE IF kw # <<>> /\ casefold(Slice(t, b, e)) # kw THEN -1
        ELSE IF e < n /\ WordChar(t[e + 1]) THEN -1
        ELSE e

RECURSIVE PhraseSub(_, _, _, _, _, _)
\* re.sub of such a pattern by repl, from offset i on, out being the result
\* so far
PhraseSub(t, i, heads, kw, repl, out) ==
    IF i >= Len(t) THEN out
    ELSE LET e == PhraseMatchEnd(t, i, heads, kw)
         IN  IF e # -1 THEN PhraseSub(t, e, heads, kw, repl, out \o repl)
             ELSE PhraseSub(t, i + 1, heads, kw, repl, Append(out, t[i + 1]))

RECURSIVE FixKeywords(_, _)
\* the loop of lines 180-192 from the k-th keyword on
FixKeywords(t, k) ==
    IF k > Len(FIXUP_KEYWORDS) THEN t
    ELSE LET kw    == FIXUP_KEYWORDS[k]
             one   == PhraseSub(t, 0, STATEMENT_SINGULAR, kw, INSTRUKCJA \o kw, <<>>)
             many  == PhraseSub(one, 0, STATEMENT_PLURAL, kw, INSTRUKCJE \o kw, <<>>)
         IN  FixKeywords(many, k + 1)

RECURSIVE CollapseWs(_, _, _)
\* re.sub(r"\s{2,}", " ", t) from offset i on (line 196)
CollapseWs(t, i, out) ==
    IF i >= Len(t) THEN out
    ELSE IF WsRun(t, i) >= 2 THEN CollapseWs(t, i + WsRun(t, i), Append(out, " "))
    ELSE CollapseWs(t, i + 1, Append(out, t[i + 1]))

\* postprocess_translation(text)
postprocess_translation(text) ==
    LET t     == strip(text)
        fixed == FixKeywords(t, 1)
        dead  == PhraseSub(fixed, 0, {NIE_ZYJE}, <<>>, JEST_MARTWY, <<>>)
        deads == PhraseSub(dead, 0, {NIE_ZYJA}, <<>>, SA_MARTWE, <<>>)
    IN  IF t = <<>> THEN t ELSE strip(CollapseWs(deads, 0, <<>>))

\* ------------------------------------------------------------------------
\* translate_code_comments_pl.py: the Literal-Aware Comment Finder
\* ------------------------------------------------------------------------

RECURSIVE ScanFrom(_, _, _, _)
\* the while loop of find_comment_spans from offset i in the given state;
\* a span is <<start, end, kind>>
ScanFrom(code, i, state, spans) ==
    LET n  == Len(code)
        ch == code[i + 1]
    IN
    IF i >= n THEN spans
    ELSE IF state = "normal" THEN
        IF i + 1 < n /\ Slice(code, i, i + 2) = <<"/", "/">> THEN
            LET start == i + 2
                j     == Min({k \in start..n : k = n \/ code[k + 1] \in {"\r", "\n"}})
            IN  ScanFrom(code, j, state, Append(spans, <<start, j, "line">>))
        ELSE IF i + 1 < n /\ Slice(code, i, i + 2) = <<"/", "*">> THEN
            LET start == i + 2
                j     == Find(code, <<"*", "/">>, start)
            IN  IF j = -1
                THEN ScanFrom(code, n, state, Append(spans, <<start, n, "block">>))
                ELSE ScanFrom(code, j + 2, state, Append(spans, <<start, j, "block">>))
        ELSE IF ch = "\"" THEN ScanFrom(code, i + 1, "dquote", spans)
        ELSE IF ch = "'" THEN ScanFrom(code, i + 1, "squote", spans)
        ELSE IF ch = "R" /\ i + 1 < n /\ code[i + 2] = "\"" THEN
            LET dstart     == i + 2
                open_paren == Find(code, <<"(">>, dstart)
                delim      == Slice(code, dstart, open_paren)
                close_pat  == <<")">> \o delim \o <<"\"">>
                close_idx  == Find(code, close_pat, open_paren + 1)
            IN  IF open_paren # -1 /\ close_idx # -1
                THEN ScanFrom(code, close_idx + Len(close_pat), state, spans)
                ELSE ScanFrom(code, i + 1, state, spans)
        ELSE ScanFrom(code, i + 1, state, spans)
    ELSE IF state = "dquote" THEN
        IF ch = "\\" /\ i + 1 < n THEN ScanFrom(code, i + 2, state, spans)
        ELSE IF ch = "\"" THEN ScanFrom(code, i + 1, "normal", spans)
        ELSE ScanFrom(code, i + 1, state, spans)
    ELSE \* state = "squote"
        IF ch = "\\" /\ i + 1 < n THEN ScanFrom(code, i + 2, state, spans)
        ELSE IF ch = "'" THEN ScanFrom(code, i + 1, "normal", spans)
        ELSE ScanFrom(code, i + 1, state, spans)

RECURSIVE ScanNoEscape(_, _, _, _)
\* find_comment_spans with the backslash rule of its quote states left out:
\* an escaped quote closes the literal
ScanNoEscape(code, i, state, spans) ==
    LET n  == Len(code)
        ch == code[i + 1]
    IN
    IF i >= n THEN spans
    ELSE IF state = "normal" THEN
        IF i + 1 < n /\ Slice(code, i, i + 2) = <<"/", "/">> THEN
            LET start == i + 2
                j     == Min({k \in start..n : k = n \/ code[k + 1] \in {"\r", "\n"}})
            IN  ScanNoEscape(code, j, state, Append(spans, <<start, j, "line">>))
        ELSE IF i + 1 < n /\ Slice(code, i, i + 2) = <<"/", "*">> THEN
            LET start == i + 2
                j     == Find(code, <<"*", "/">>, start)
            IN  IF j = -1
                THEN ScanNoEscape(code, n, state, Append(spans, <<start, n, "block">>))
                ELSE ScanNoEscape(code, j + 2, state, Append(spans, <<start, j, "block">>))
        ELSE IF ch = "\"" THEN ScanNoEscape(code, i + 1, "dquote", spans)
        ELSE IF ch = "'" THEN ScanNoEscape(code, i + 1, "squote", spans)
        ELSE IF ch = "R" /\ i + 1 < n /\ code[i + 2] = "\"" THEN
            LET dstart     == i + 2
                open_paren == Find(code, <<"(">>, dstart)
                delim      == Slice(code, dstart, open_paren)
                close_pat  == <<")">> \o delim \o <<"\"">>
                close_idx  == Find(code, close_pat, open_paren + 1)
            IN  IF open_paren # -1 /\ close_idx # -1
                THEN ScanNoEscape(code, close_idx + Len(close_pat), state, spans)
                ELSE ScanNoEscape(code, i + 1, state, spans)
        ELSE ScanNoEscape(code, i + 1, state, spans)
    ELSE IF state = "dquote" THEN
        IF ch = "\"" THEN ScanNoEscape(code, i + 1, "normal", spans)
        ELSE ScanNoEscape(code, i + 1, state, spans)
    ELSE \* state = "squote"
        IF ch = "'" THEN ScanNoEscape(code, i + 1, "normal", spans)
        ELSE ScanNoEscape(code, i + 1, state, spans)

find_comment_spans_no_escape(code) == ScanNoEscape(code, 0, "normal", <<>>)

\* find_comment_spans whose spans take in the two characters of the opening
\* marker
find_comment_spans_with_markers(code) ==
    LET found == ScanFrom(code, 0, "normal", <<>>)
    IN  [k \in 1..Len(found) |-> <<found[k][1] - 2, found[k][2], found[k][3]>>]

find_comment_spans(code) == ScanFrom(code, 0, "normal", <<>>)

\* ------------------------------------------------------------------------
\* translate_code_comments_pl.py: the Rewriter of comments
\* ------------------------------------------------------------------------

\* the line boundaries of str.splitlines() among the characters of the model
LineBoundary == {"\n", "\r", "\f"}

RECURSIVE splitlines_keepends(_)
\* s.splitlines(keepends=True)
splitlines_keepends(s) ==
    IF s = <<>> THEN <<>>
    ELSE LET hits == {i \in 1..Len(s) : s[i] \in LineBoundary}
         IN  IF hits = {} THEN <<s>>
             ELSE LET p == Min(hits)
                      e == IF s[p] = "\r" /\ p < Len(s) /\ s[p + 1] = "\n" THEN p + 1 ELSE p
                  IN  <<SubSeq(s, 1, e)>> \o splitlines_keepends(SubSeq(s, e + 1, Len(s)))

\* a line of splitlines(keepends=True) without its line boundary
DropBoundary(line) ==
    IF endswith(line, <<"\r", "\n">>) THEN Slice(line, 0, Len(line) - 2)
    ELSE IF line # <<>> /\ line[Len(line)] \in LineBoundary THEN Slice(line, 0, Len(line) - 1)
    ELSE line

\* s.splitlines()
splitlines(s) ==
    LET ls == splitlines_keepends(s)
    IN  [i \in 1..Len(ls) |-> DropBoundary(ls[i])]

\* BLOCK_DECOR_RE.match(raw), ^(\s*\*+\s?)(.*)$ on a line without "\n":
\* white space, one or more "*", at most one white space character; group 2
\* is the rest of the line
BLOCK_DECOR_RE_match(raw) ==
    LET ws    == LeadLen(raw)
        stars == Min({k \in ws..Len(raw) : k = Len(raw) \/ raw[k + 1] # "*"})
        pre   == IF stars < Len(raw) /\ raw[stars + 1] \in Whitespace THEN stars + 1 ELSE stars
    IN  IF stars > ws
        THEN [matched |-> TRUE, prefix |-> Slice(raw, 0, pre), body |-> Slice(raw, pre, Len(raw))]
        ELSE [matched |-> FALSE, prefix |-> <<>>, body |-> raw]

\* cache.get(key, default); a cache is a function from texts to texts
cache_get(cache, key, default) == IF key \in DOMAIN cache THEN cache[key] ELSE default

\* translate_body putting the translation back without the white space that
\* led the fragment
translate_body_drops_lead(body, cache) ==
    LET parts == split_ws(body)
    IN  IF ~should_translate_comment(parts.core) THEN body
        ELSE cache_get(cache, parts.core, parts.core) \o parts.trail

\* the inner function translate_body of translate_comment_content
translate_body(body, cache) ==
    LET parts == split_ws(body)
    IN  IF ~should_translate_comment(parts.core) THEN body
        ELSE parts.lead \o cache_get(cache, parts.core, parts.core) \o parts.trail

\* one line of a multi-line block comment, as the loop body of
\* translate_comment_content rewrites it
translate_line(line, cache) ==
    LET end == IF endswith(line, <<"\r", "\n">>) THEN <<"\r", "\n">>
               ELSE IF endswith(line, <<"\n">>) THEN <<"\n">>
               ELSE IF endswith(line, <<"\r">>) THEN <<"\r">>
               ELSE <<>>
        raw == Slice(line, 0, Len(line) - Len(end))
        m   == BLOCK_DECOR_RE_match(raw)
    IN  IF m.matched THEN m.prefix \o translate_body(m.body, cache) \o end
        ELSE translate_body(raw, cache) \o end

translate_comment_content(content, kind, cache) ==
    IF kind = "block" /\ (Contains(content, <<"\n">>) \/ Contains(content, <<"\r">>))
    THEN LET lines == splitlines_keepends(content)
         IN  Concat([i \in 1..Len(lines) |-> translate_line(lines[i], cache)])
    ELSE translate_body(content, cache)

RECURSIVE RewriteSpans(_, _, _, _, _)
\* the loop of rewrite_code_comments over reversed(spans), with k spans left
RewriteSpans(spans, k, updated, changed, cache) ==
    IF k = 0 THEN <<updated, changed>>
    ELSE LET start == spans[k][1]
             end   == spans[k][2]
             old   == Slice(updated, start, end)
             new   == translate_comment_content(old, spans[k][3], cache)
         IN  IF new # old
             THEN RewriteSpans(spans, k - 1,
                               Slice(updated, 0, start) \o new \o Slice(updated, end, Len(updated)),
                               TRUE, cache)
             ELSE RewriteSpans(spans, k - 1, updated, changed, cache)

\* rewrite_code_comments(code, cache) = (updated, changed)
rewrite_code_comments(code, cache) ==
    LET spans == find_comment_spans(code)
    IN  IF spans = <<>> THEN <<code, FALSE>>
        ELSE RewriteSpans(spans, Len(spans), code, FALSE, cache)

\* the fragments one span contributes to missing_set in collect_comment_units
span_units(content, kind, cache) ==
    IF kind = "block" /\ (Contains(content, <<"\n">>) \/ Contains(content, <<"\r">>))
    THEN LET lines == splitlines(content)
             body(line) == LET m == BLOCK_DECOR_RE_match(line)
                           IN  IF m.matched THEN m.body ELSE line
         IN  {split_ws(body(lines[i])).core : i \in 1..Len(lines)}
    ELSE {split_ws(content).core}

\* collect_comment_units(code, missing_set, cache): missing_set afterwards
collect_comment_units(code, missing_set, cache) ==
    LET spans == find_comment_spans(code)
        cores == UNION {span_units(Slice(code, spans[k][1], spans[k][2]), spans[k][3], cache) :
                            k \in 1..Len(spans)}
    IN  missing_set \cup {core \in cores : should_translate_comment(core) /\ core \notin DOMAIN cache}

\* ------------------------------------------------------------------------
\* html.unescape and html.escape, on the entities html.escape writes
\* ------------------------------------------------------------------------

\* the named character references of the model: html5["amp"], html5["lt"],
\* html5["gt"], html5["quot"]; each is in html5 with and without ";"
NamedEntity(name) ==
    CASE name = <<"a","m","p">> -> <<"&">>
      [] name = <<"l","t">> -> <<"<">>
      [] name = <<"g","t">> -> <<">">>
      [] name = <<"q","u","o","t">> -> <<"\"">>
      [] OTHER -> <<>>

\* the numeric character references of the model: &#39 and &#x27
NumericEntity(digits) ==
    CASE digits = <<"3","9">> -> <<"'">>
      [] lower(digits) = <<"x","2","7">> -> <<"'">>
      [] OTHER -> <<>>

\* the characters a named reference cannot hold: [^\t\n\f <&#;]
EntityStop == {"\t", "\n", "\f", " ", "<", "&", "#", ";"}

HexDigits == Digits \cup {"a","b","c","d","e","f","A","B","C","D","E","F"}

\* the match of _charref at the "&" at offset amp and _replace_charref on
\* it: <<replacement, offset at which the scan goes on>>.  Where nothing is
\* replaced the "&" stays and the scan goes on behind it (the characters of
\* the reference hold no "&").  A name is at most 32 characters long.
CharRef(s, amp) ==
    LET n     == Len(s)
        at(i) == IF i < n THEN s[i + 1] ELSE "EOF"
        i0    == amp + 1
        runEnd(from, class) == Min({k \in from..n : k = n \/ s[k + 1] \notin class})
        semi(k) == IF at(k) = ";" THEN k + 1 ELSE k
    IN  IF at(i0) = "#" THEN
            LET hex  == at(i0 + 1) \in {"x", "X"}
                d0   == IF hex THEN i0 + 2 ELSE i0 + 1
                d1   == runEnd(d0, IF hex THEN HexDigits ELSE Digits)
                body == Slice(s, i0 + 1, d1)
            IN  IF d1 > d0 /\ NumericEntity(body) # <<>>
                THEN <<NumericEntity(body), semi(d1)>>
                ELSE <<<<"&">>, amp + 1>>
        ELSE
            LET e1   == Min({k \in i0..n : k = n \/ k = i0 + 32 \/ s[k + 1] \in EntityStop})
                name == Slice(s, i0, e1)
                pre  == {x \in 2..(Len(name) - 1) : NamedEntity(Slice(name, 0, x)) # <<>>}
            IN  IF e1 = i0 THEN <<<<"&">>, amp + 1>>
                ELSE IF NamedEntity(name) # <<>> THEN <<NamedEntity(name), semi(e1)>>
                ELSE IF pre # {}
                     THEN <<NamedEntity(Slice(name, 0, Max(pre))), i0 + Max(pre)>>
                ELSE <<<<"&">>, amp + 1>>

RECURSIVE unescape_from(_, _)
unescape_from(s, i) ==
    LET amp == Find(s, <<"&">>, i)
    IN  IF amp = -1 THEN Slice(s, i, Len(s))
        ELSE Slice(s, i, amp) \o CharRef(s, amp)[1] \o unescape_from(s, CharRef(s, amp)[2])

\* html.unescape(s)
unescape(s) == unescape_from(s, 0)

\* html.escape(s, quote)
escape(s, quote) ==
    Concat([i \in 1..Len(s) |->
        CASE s[i] = "&" -> <<"&","a","m","p",";">>
          [] s[i] = "<" -> <<"&","l","t",";">>
          [] s[i] = ">" -> <<"&","g","t",";">>
          [] s[i] = "\"" /\ quote -> <<"&","q","u","o","t",";">>
          [] s[i] = "'" /\ quote -> <<"&","#","x","2","7",";">>
          [] OTHER -> <<s[i]>>])

escape_html_text(text) == escape(text, FALSE)

escape_attr_value(text) == escape(text, TRUE)

\* ------------------------------------------------------------------------
\* translate_learncpp_pl.py: the Lexical Scanner, the classifier and the
\* Rewriter of the prose driver
\* ------------------------------------------------------------------------

SKIP_TAGS ==
    { <<"s","c","r","i","p","t">>, <<"s","t","y","l","e">>, <<"p","r","e">>, <<"c","o","d","e">>,
      <<"t","e","x","t","a","r","e","a">>, <<"s","v","g">>, <<"m","a","t","h">> }

ATTRS_TO_TRANSLATE ==
    { <<"t","i","t","l","e">>, <<"a","l","t">>, <<"p","l","a","c","e","h","o","l","d","e","r">> }

\* URL_RE.search(t), of the prose driver: ^(https?:|mailto:|tel:|www\.),
\* ignoring case
URL_RE_prose_search(t) ==
    LET l == lower(t)
    IN  \/ startswith(l, <<"h","t","t","p",":">>)
        \/ startswith(l, <<"h","t","t","p","s",":">>)
        \/ startswith(l, <<"m","a","i","l","t","o",":">>)
        \/ startswith(l, <<"t","e","l",":">>)
        \/ startswith(l, <<"w","w","w",".">>)

\* HAS_LETTER_RE.search(t): [A-Za-z] or a character from U+00C0 to U+017E,
\* which holds the Polish letters and the letters of MOJIBAKE_RE
HAS_LETTER_RE_search(t) ==
    \E i \in 1..Len(t) : t[i] \in AsciiLetters \cup PL_CHARS \cup MojibakeLetters

should_translate(text) ==
    LET t == strip(text)
    IN  IF t = <<>> THEN FALSE
        ELSE IF URL_RE_prose_search(t) THEN FALSE
        ELSE IF startswith(t, <<"{", "{">>) /\ endswith(t, <<"}", "}">>) THEN FALSE
        ELSE IF ~HAS_LETTER_RE_search(t) THEN FALSE
        ELSE TRUE

RECURSIVE SplitFrom(_, _)
\* TAG_SPLIT_RE.split(s) from offset pos on: a tag is "<", one or more
\* characters other than ">", and ">"
SplitFrom(s, pos) ==
    LET n     == Len(s)
        opens == {p \in pos..(n - 3) :
                     s[p + 1] = "<" /\ s[p + 2] # ">" /\ Find(s, <<">">>, p + 2) # -1}
        p     == Min(opens)
        q     == Find(s, <<">">>, p + 2)
    IN  IF opens = {} THEN <<Slice(s, pos, n)>>
        ELSE <<Slice(s, pos, p), Slice(s, p, q + 1)>> \o SplitFrom(s, q + 1)

\* TAG_SPLIT_RE.split(original)
TAG_SPLIT_RE_split(original) == SplitFrom(original, 0)

\* [a-zA-Z0-9:_-]
NameChars == AsciiLetters \cup Digits \cup {":", "_", "-"}

\* the offset at which \s* stops when it starts at offset i
WsEnd(tok, i) == Min({k \in i..Len(tok) : k = Len(tok) \/ tok[k + 1] \notin Whitespace})

\* the length of the match of ([a-zA-Z0-9:_-]+)\b at offset i, 0 for none:
\* the longest run of name characters that ends at a word boundary
NameLen(tok, i) ==
    LET n   == Len(tok)
        run == Min({k \in i..n : k = n \/ tok[k + 1] \notin NameChars})
        ok  == {k \in (i + 1)..run : WordChar(tok[k]) # (k < n /\ WordChar(tok[k + 1]))}
    IN  IF ok = {} THEN 0 ELSE Max(ok) - i

\* parse_tag_name(token) = (tag_type, tag_name); None is "None"
parse_tag_name(token) ==
    LET afterLt  == WsEnd(token, 1)
        slash    == afterLt < Len(token) /\ token[afterLt + 1] = "/"
        endName  == WsEnd(token, afterLt + 1)
        endLen   == NameLen(token, endName)
        startLen == NameLen(token, afterLt)
    IN  IF \/ startswith(token, <<"<", "!", "-", "-">>)
           \/ startswith(token, <<"<", "!">>)
           \/ startswith(token, <<"<", "?">>)
        THEN <<"None", "None">>
        ELSE IF slash /\ endLen > 0
        THEN <<"end", lower(Slice(token, endName, endName + endLen))>>
        ELSE IF startLen > 0
        THEN <<"start", lower(Slice(token, afterLt, afterLt + startLen))>>
        ELSE <<"None", "None">>

\* the match of ATTR_RE at offset p of a tag token, if there is one: a word
\* boundary, an attribute name of the allow-list, "=", a quote, and the
\* value up to the next such quote
AttrMatchAt(tok, p) ==
    LET n     == Len(tok)
        names == {a \in ATTRS_TO_TRANSLATE :
                     p + Len(a) <= n /\ lower(Slice(tok, p, p + Len(a))) = a}
        a     == CHOOSE x \in names : TRUE
        w1    == WsEnd(tok, p + Len(a))
        w2    == WsEnd(tok, w1 + 1)
        close == Find(tok, <<tok[w2 + 1]>>, w2 + 1)
        none  == [ok |-> FALSE, name |-> <<>>, start |-> 0, end |-> 0]
    IN  IF names = {} \/ ~(p = 0 \/ ~WordChar(tok[p])) THEN none
        ELSE IF ~(w1 < n /\ tok[w1 + 1] = "=") THEN none
        ELSE IF ~(w2 < n /\ tok[w2 + 1] \in {"'", "\""}) THEN none
        ELSE IF close = -1 THEN none
        ELSE [ok |-> TRUE, name |-> a, start |-> w2 + 1, end |-> close]

RECURSIVE AttrFrom(_, _)
\* ATTR_RE.finditer(token) from offset pos on
AttrFrom(tok, pos) ==
    LET ps == {p \in pos..Len(tok) : AttrMatchAt(tok, p).ok}
        m  == AttrMatchAt(tok, Min(ps))
    IN  IF ps = {} THEN <<>>
        ELSE <<m>> \o AttrFrom(tok, m.end + 1)

\* the entries the inner loop of process_file (lines 166-173) adds to
\* attr_entries for the tag token at index idx
attr_entries_of(idx, token) ==
    LET ms    == AttrFrom(token, 0)
        val(m) == unescape(Slice(token, m.start, m.end))
        keep  == {k \in 1..Len(ms) : ms[k].name \in ATTRS_TO_TRANSLATE /\ should_translate(val(ms[k]))}
        RECURSIVE pick(_)
        pick(k) == IF k > Len(ms) THEN <<>>
                   ELSE IF k \in keep
                        THEN <<[idx |-> idx, start |-> ms[k].start, end |-> ms[k].end,
                                raw_val |-> Slice(token, ms[k].start, ms[k].end),
                                val |-> val(ms[k])]>> \o pick(k + 1)
                   ELSE pick(k + 1)
    IN  pick(1)

\* token.rstrip()
rstrip(s) == Slice(s, 0, Len(s) - TrailLen(s))

\* the Tag Context Stack that any end tag pops, whatever name is on top
step_skip_stack_pops_any(skip_stack, token) ==
    LET tag == parse_tag_name(token)
    IN  IF tag[1] = "start" /\ tag[2] \in SKIP_TAGS /\ ~endswith(rstrip(token), <<"/", ">">>)
        THEN Append(skip_stack, tag[2])
        ELSE IF tag[1] = "end" /\ skip_stack # <<>>
        THEN SubSeq(skip_stack, 1, Len(skip_stack) - 1)
        ELSE skip_stack

\* lines 158-163 of process_file: the Tag Context Stack after a tag token
step_skip_stack(skip_stack, token) ==
    LET tag == parse_tag_name(token)
    IN  IF tag[1] = "start" /\ tag[2] \in SKIP_TAGS /\ ~endswith(rstrip(token), <<"/", ">">>)
        THEN Append(skip_stack, tag[2])
        ELSE IF tag[1] = "end" /\ skip_stack # <<>> /\ tag[2] = skip_stack[Len(skip_stack)]
        THEN SubSeq(skip_stack, 1, Len(skip_stack) - 1)
        ELSE skip_stack

RECURSIVE scan_parts_any_stack(_, _, _, _, _)
\* the scan loop without line 176: text tokens are taken whatever the Tag
\* Context Stack holds
scan_parts_any_stack(parts, idx, skip_stack, text_entries, attr_entries) ==
    LET token   == parts[idx + 1]
        stack2  == step_skip_stack(skip_stack, token)
        decoded == unescape(token)
        sp      == split_ws(decoded)
    IN  IF idx >= Len(parts) THEN [text_entries |-> text_entries, attr_entries |-> attr_entries]
        ELSE IF idx % 2 = 1 THEN
            scan_parts_any_stack(parts, idx + 1, stack2, text_entries,
                                 IF stack2 = <<>> THEN attr_entries \o attr_entries_of(idx, token)
                                 ELSE attr_entries)
        ELSE IF ~should_translate(decoded) \/ ~should_translate(sp.core) THEN
            scan_parts_any_stack(parts, idx + 1, skip_stack, text_entries, attr_entries)
        ELSE scan_parts_any_stack(parts, idx + 1, skip_stack,
                                  Append(text_entries,
                                         [idx |-> idx, lead |-> sp.lead, core |-> sp.core,
                                          trail |-> sp.trail]),
                                  attr_entries)

RECURSIVE scan_parts(_, _, _, _, _)
\* the scan loop of process_file (lines 156-188) from token idx on
scan_parts(parts, idx, skip_stack, text_entries, attr_entries) ==
    LET token   == parts[idx + 1]
        stack2  == step_skip_stack(skip_stack, token)
        decoded == unescape(token)
        sp      == split_ws(decoded)
    IN  IF idx >= Len(parts) THEN [text_entries |-> text_entries, attr_entries |-> attr_entries]
        ELSE IF idx % 2 = 1 THEN
            scan_parts(parts, idx + 1, stack2, text_entries,
                       IF stack2 = <<>> THEN attr_entries \o attr_entries_of(idx, token)
                       ELSE attr_entries)
        ELSE IF skip_stack # <<>> THEN
            scan_parts(parts, idx + 1, skip_stack, text_entries, attr_entries)
        ELSE IF ~should_translate(decoded) THEN
            scan_parts(parts, idx + 1, skip_stack, text_entries, attr_entries)
        ELSE IF ~should_translate(sp.core) THEN
            scan_parts(parts, idx + 1, skip_stack, text_entries, attr_entries)
        ELSE scan_parts(parts, idx + 1, skip_stack,
                        Append(text_entries,
                               [idx |-> idx, lead |-> sp.lead, core |-> sp.core, trail |-> sp.trail]),
                        attr_entries)

\* text_entries and attr_entries of process_file for a document
prose_entries(original) == scan_parts(TAG_SPLIT_RE_split(original), 0, <<>>, <<>>, <<>>)

\* line 193: to_translate
to_translate(entries) ==
    [k \in 1..Len(entries.text_entries) |-> entries.text_entries[k].core]
        \o [k \in 1..Len(entries.attr_entries) |-> entries.attr_entries[k].val]

RECURSIVE apply_edits(_, _, _, _)
\* lines 215-218: the edits of one tag token, from the rightmost to the
\* leftmost; edits are in ascending order of start and k of them are left
apply_edits(new_token, edits, k, cache) ==
    IF k = 0 THEN new_token
    ELSE apply_edits(Slice(new_token, 0, edits[k].start)
                        \o escape_attr_value(cache_get(cache, edits[k].val, edits[k].val))
                        \o Slice(new_token, edits[k].end, Len(new_token)),
                     edits, k - 1, cache)

\* the entries of attr_entries that belong to the tag token at index idx
edits_of(attr_entries, idx) ==
    LET RECURSIVE pick(_)
        pick(k) == IF k > Len(attr_entries) THEN <<>>
                   ELSE IF attr_entries[k].idx = idx THEN <<attr_entries[k]>> \o pick(k + 1)
                   ELSE pick(k + 1)
    IN  pick(1)

\* lines 196-221: parts after the replacements, with the cache as
\* translate_missing left it
apply_entries(parts, entries, cache) ==
    LET te == entries.text_entries
        ae == entries.attr_entries
        new_text(e) == e.lead \o escape_html_text(cache_get(cache, e.core, e.core)) \o e.trail
    IN  [i \in 1..Len(parts) |->
            IF \E k \in 1..Len(te) : te[k].idx = i - 1
            THEN new_text(te[CHOOSE k \in 1..Len(te) : te[k].idx = i - 1])
            ELSE IF \E k \in 1..Len(ae) : ae[k].idx = i - 1
            THEN LET edits == edits_of(ae, i - 1)
                 IN  apply_edits(parts[i], edits, Len(edits), cache)
            ELSE parts[i]]

\* process_file(path, cache, translator) of the prose driver, given the cache
\* as translate_missing left it: <<the file's text afterwards, changed>>
process_file_prose(original, cache) ==
    LET parts   == TAG_SPLIT_RE_split(original)
        entries == prose_entries(original)
        new     == apply_entries(parts, entries, cache)
        changed == new # parts
    IN  IF entries.text_entries = <<>> /\ entries.attr_entries = <<>> THEN <<original, FALSE>>
        ELSE IF changed THEN <<Concat(new), TRUE>>
        ELSE <<original, FALSE>>

\* lines 223-226 of process_file: the file's text after the run, given the
\* parts before and after the replacements
written_text(original, split, new) == IF new # split THEN Concat(new) ELSE original

\* ------------------------------------------------------------------------
\* translate_code_comments_pl.py: the file-level pass of the comment driver
\* ------------------------------------------------------------------------

\* the match of CODE_RE at offset p of a file's text, if there is one:
\* "<code" ignoring case, a word boundary, the first ">", and the element's
\* content up to the first "</code>" ignoring case
CodeMatchAt(text, p) ==
    LET n    == Len(text)
        q    == Find(text, <<">">>, p + 5)
        c    == Find(lower(text), <<"<","/","c","o","d","e",">">>, q + 1)
        none == [ok |-> FALSE, start |-> 0, open_end |-> 0, close |-> 0, end |-> 0]
    IN  IF ~(p + 5 < n /\ text[p + 1] = "<"
               /\ lower(Slice(text, p, p + 5)) = <<"<","c","o","d","e">>) THEN none
        ELSE IF WordChar(text[p + 6]) THEN none
        ELSE IF q = -1 THEN none
        ELSE IF c = -1 THEN none
        ELSE [ok |-> TRUE, start |-> p, open_end |-> q + 1, close |-> c, end |-> c + 7]

RECURSIVE CodeFrom(_, _)
\* CODE_RE.finditer(text) from offset pos on
CodeFrom(text, pos) ==
    LET ps == {p \in pos..Len(text) : CodeMatchAt(text, p).ok}
        m  == CodeMatchAt(text, Min(ps))
    IN  IF ps = {} THEN <<>>
        ELSE <<m>> \o CodeFrom(text, m.end)

CODE_RE_finditer(text) == CodeFrom(text, 0)

\* collect_missing_from_file(path, cache, missing_set): missing_set afterwards
collect_missing_from_file(text, cache, missing_set) ==
    LET ms == CODE_RE_finditer(text)
        RECURSIVE loop(_, _)
        loop(k, acc) ==
            IF k > Len(ms) THEN acc
            ELSE loop(k + 1,
                      collect_comment_units(unescape(Slice(text, ms[k].open_end, ms[k].close)),
                                            acc, cache))
    IN  loop(1, missing_set)

\* process_file(path, cache) of the comment driver:
\* <<the file's text afterwards, changed>>
process_file_comments(text, cache) ==
    LET ms == CODE_RE_finditer(text)
        element(m) ==
            LET code_escaped == Slice(text, m.open_end, m.close)
                rw           == rewrite_code_comments(unescape(code_escaped), cache)
            IN  <<Slice(text, m.start, m.open_end)
                     \o (IF rw[2] THEN escape(rw[1], FALSE) ELSE code_escaped)
                     \o Slice(text, m.close, m.end),
                  rw[2]>>
        RECURSIVE loop(_, _)
        loop(k, last) ==
            IF k > Len(ms) THEN Slice(text, last, Len(text))
            ELSE Slice(text, last, ms[k].start) \o element(ms[k])[1] \o loop(k + 1, ms[k].end)
        changed == \E k \in 1..Len(ms) : element(ms[k])[2]
    IN  IF changed THEN <<loop(1, 0), TRUE>> ELSE <<text, FALSE>>

\* main, lines 534-540: the cache without its stale entries
purge_stale(cache) ==
    [k \in {x \in DOMAIN cache : ~is_bad_translation(x, cache[x])} |-> cache[k]]

\* ------------------------------------------------------------------------
\* The Batch Coordinator: build_batches and translate_group_payload, which
\* the two drivers share
\* ------------------------------------------------------------------------

RECURSIVE Decimal(_)
\* str(n) for a natural number, as an f-string formats it
Decimal(n) ==
    IF n < 10 THEN <<Digits10[n + 1]>>
    ELSE Decimal(n \div 10) \o <<Digits10[(n % 10) + 1]>>

\* f"<<<M{i}>>>"
Marker(i) == <<"<","<","<","M">> \o Decimal(i) \o <<">",">",">">>

\* "<<<MEND>>>"
MEND == <<"<","<","<","M","E","N","D",">",">",">">>

\* line 316 of translate_group_payload: the payload for a list of texts
build_payload(texts) ==
    Concat([i \in 1..Len(texts) |-> Marker(i - 1) \o texts[i]]) \o MEND

\* the value None of translate_group_payload
NoneResult == [none |-> TRUE, vals |-> <<>>]

RECURSIVE ParseFrom(_, _, _, _)
\* the loop of translate_group_payload (lines 323-336) from fragment i on,
\* with n fragments in all
ParseFrom(translated, i, n, out) ==
    LET marker      == Marker(i)
        next_marker == IF i + 1 < n THEN Marker(i + 1) ELSE MEND
        found       == Find(translated, marker, 0)
        start       == found + Len(marker)
        end         == Find(translated, next_marker, start)
    IN  IF i >= n THEN [none |-> FALSE, vals |-> out]
        ELSE IF found = -1 THEN NoneResult
        ELSE IF end = -1 THEN NoneResult
        ELSE ParseFrom(translated, i + 1, n, Append(out, Slice(translated, start, end)))

\* translate_group_payload(translator, texts), given what
\* translator.translate(payload) returned
translate_group_payload(texts, translated) ==
    IF ~Contains(translated, MEND) THEN NoneResult
    ELSE ParseFrom(translated, 0, Len(texts), <<>>)

\* max_len of build_batches
DefaultMaxLen == 3800

RECURSIVE BatchLoop_drops_on_flush(_, _, _, _, _, _)
\* the loop of build_batches that, when it closes a full batch, starts the
\* next one empty: the item that did not fit is lost
BatchLoop_drops_on_flush(items, k, max_len, batches, current, current_len) ==
    LET txt    == items[k][2]
        marker == Marker(Len(current))
        extra  == Len(marker) + Len(txt)
    IN  IF k > Len(items)
        THEN IF current # <<>> THEN Append(batches, current) ELSE batches
        ELSE IF current # <<>> /\ current_len + extra > max_len
        THEN BatchLoop_drops_on_flush(items, k + 1, max_len, Append(batches, current), <<>>,
                                      Len(MEND))
        ELSE BatchLoop_drops_on_flush(items, k + 1, max_len, batches, Append(current, items[k]),
                                      current_len + extra)

RECURSIVE BatchLoop(_, _, _, _, _, _)
\* the loop of build_batches of the prose driver over items k, k+1, ...;
\* an item is <<position in the list of texts, text>>
BatchLoop(items, k, max_len, batches, current, current_len) ==
    LET txt    == items[k][2]
        marker == Marker(Len(current))
        extra  == Len(marker) + Len(txt)
    IN  IF k > Len(items)
        THEN IF current # <<>> THEN Append(batches, current) ELSE batches
        ELSE IF current # <<>> /\ current_len + extra > max_len
        THEN BatchLoop(items, k + 1, max_len, Append(batches, current), <<items[k]>>,
                       Len(MEND) + Len(Marker(0)) + Len(txt))
        ELSE BatchLoop(items, k + 1, max_len, batches, Append(current, items[k]),
                       current_len + extra)

\* build_batches(items, max_len) of translate_learncpp_pl.py
build_batches_prose(items, max_len) == BatchLoop(items, 1, max_len, <<>>, <<>>, Len(MEND))

RECURSIVE BatchLoopComments(_, _, _, _, _, _)
\* the loop of build_batches of the comment driver: after it has closed a
\* full batch it still counts the marker it computed before (lines 299-309)
BatchLoopComments(items, k, max_len, batches, current, current_len) ==
    LET txt    == items[k][2]
        marker == Marker(Len(current))
        extra  == Len(marker) + Len(txt)
    IN  IF k > Len(items)
        THEN IF current # <<>> THEN Append(batches, current) ELSE batches
        ELSE IF current # <<>> /\ current_len + extra > max_len
        THEN BatchLoopComments(items, k + 1, max_len, Append(batches, current), <<items[k]>>,
                               Len(MEND) + extra)
        ELSE BatchLoopComments(items, k + 1, max_len, batches, Append(current, items[k]),
                               current_len + extra)

\* build_batches(items, max_len) of translate_code_comments_pl.py
build_batches_comments(items, max_len) ==
    BatchLoopComments(items, 1, max_len, <<>>, <<>>, Len(MEND))

\* the missing items without the last of them
missing_items_but_last(texts, cache) ==
    LET idx == SelectSeq([i \in 1..Len(texts) |-> i], LAMBDA i : texts[i] \notin DOMAIN cache)
    IN  [k \in 1..(Len(idx) - 1) |-> <<idx[k] - 1, texts[idx[k]]>>]

\* line 110 of translate_missing: the items whose text is not in the cache
missing_items(texts, cache) ==
    LET RECURSIVE pick(_)
        pick(k) == IF k > Len(texts) THEN <<>>
                   ELSE IF texts[k] \notin DOMAIN cache THEN <<<<k - 1, texts[k]>>>> \o pick(k + 1)
                   ELSE pick(k + 1)
    IN  pick(1)

\* ------------------------------------------------------------------------
\* State
\* ------------------------------------------------------------------------

VARIABLES
    source,       \* is_bad_translation: the source fragment
    translated,   \* is_bad_translation: the candidate translation
    bad,          \* is_bad_translation: its result
    gate_pc,      \* "input" before the gate has judged the pair, "judged" after
    lexemes,      \* find_comment_spans: the lexemes its argument is made of
    spans,        \* find_comment_spans: its result
    span_pc,      \* "input" before find_comment_spans has run, "done" after
    code,         \* comment driver: the decoded text of one <code> element
    cache,        \* comment driver: the cache, a function from fragment to translation
    missing_set,  \* comment driver: main's missing_set
    submitted,    \* comment driver: the fragments handed to the backend so far
    updated,      \* comment driver: the text rewrite_code_comments returned
    changed,      \* comment driver: the flag rewrite_code_comments returned
    first,        \* comment driver: the text the rewrite before the last one returned
    code_pc,      \* comment driver: "scan", "translate", "rewrite", "done", "again"
    page,         \* site: the text of the one HTML file under the root
    store,        \* site: the cache file, a function from fragment to translation
    history,      \* site: the drivers run so far, "prose" or "comments", in order
    page0,        \* site: the file's text before the first run
    store0,       \* site: the cache file before the first run
    before,       \* site: the file's text before the last run
    parts,        \* prose driver: process_file's parts when the last run ended
    text_entries, \* prose driver: process_file's text_entries in the last run
    attr_entries, \* prose driver: process_file's attr_entries in the last run
    sent,         \* site: the fragments handed to the backend in the last run
    site_changed, \* site: what process_file returned in the last run
    group_texts,  \* translate_group_payload: its argument texts
    response,     \* translate_group_payload: what translator.translate returned
    group_result, \* translate_group_payload: its result
    group_pc,     \* "input" before translate_group_payload has run, "done" after
    to_resolve,   \* translate_missing: its argument texts
    tm_cache,     \* translate_missing: its argument cache
    batches,      \* translate_missing: the batches build_batches returned
    batch_no,     \* translate_missing: the batch being resolved, from 1
    attempt,      \* translate_missing: the attempts made on the batch or fragment
    fallback_at,  \* translate_missing: the fragment of the batch the fallback is at
    translated_vals, \* translate_missing: translated_vals of the batch
    call,         \* translate_missing: the texts the last backend call carried
    tm_pc,        \* "start", "batch", "fallback", "store", "done", "written"
    batch_outcome, \* translate_missing: how the last attempt on the batch ended
    cache_file,   \* main: the content of the cache file on disk
    bb_items,     \* build_batches: its argument items
    bb_max_len,   \* build_batches: its argument max_len
    bb_driver,    \* build_batches: the driver whose build_batches is called
    bb_batches,   \* build_batches: its result
    bb_pc,        \* "input" before build_batches has run, "done" after
    m_driver,     \* main: "prose" for translate_learncpp_pl.py, "comments" for translate_code_comments_pl.py
    m_seed,       \* main: the seed cache file
    m_disk,       \* main: the cache file
    m_files,      \* main: files, the documents of the site
    m_cache,      \* main: cache, the dict in memory
    m_missing,    \* main: missing_set
    m_i,          \* main: the number of files the current loop has handled
    m_handled,    \* main: the files process_file has returned from
    m_errors,     \* main: the files an ERROR line was printed for
    m_requested,  \* main: the fragments the backend was asked for
    m_pc,         \* main: the step it is at
    m_crash,      \* main: the step an exception left main at
    st_tokens,    \* process_file: the tag tokens of a document, each with its kind
    st_pos,       \* process_file: the number of tag tokens the loop has handled
    st_stack,     \* process_file: skip_stack
    o_text,       \* translate_one: its argument text
    o_translator, \* translate_one: 1 while translator_en is tried, 2 for translator_auto, 3 after both
    o_attempt,    \* translate_one: attempt
    o_last,       \* translate_one: last
    o_result,     \* translate_one: the value returned
    o_calls,      \* translate_one: the backend calls made so far and how each ended
    o_pc,         \* "run" while translate_one runs, "returned" after
    tm_driver,    \* translate_missing: "prose" for translate_learncpp_pl.py, "comments" for translate_code_comments_pl.py
    batch_calls,  \* translate_missing: the times the payload of the batch in progress was submitted
    frag_calls,   \* translate_missing: the backend calls made for the fragment the prose fallback is at
    fix_at,       \* translate_missing: the position the loop of lines 382-388 is at
    fixed_vals,   \* translate_missing: fixed_vals
    sc_core,      \* should_translate_comment: the fragment it is called with
    sc_result,    \* should_translate_comment: what it returned
    sc_pc         \* "input" before should_translate_comment has run, "judged" after

gate_vars == <<source, translated, bad, gate_pc>>

span_vars == <<lexemes, spans, span_pc>>

code_vars == <<code, cache, missing_set, submitted, updated, changed, first, code_pc>>

site_vars ==
    <<page, store, history, page0, store0, before, parts, text_entries, attr_entries,
      sent, site_changed>>

group_vars == <<group_texts, response, group_result, group_pc>>

tm_vars ==
    <<to_resolve, tm_cache, batches, batch_no, attempt, fallback_at, translated_vals,
      call, tm_pc, batch_outcome, cache_file>>

bb_vars ==
    <<bb_items, bb_max_len, bb_driver, bb_batches, bb_pc>>

main_vars ==
    <<m_driver, m_seed, m_disk, m_files, m_cache, m_missing, m_i, m_handled, m_errors, m_requested, m_pc, m_crash>>

stack_vars ==
    <<st_tokens, st_pos, st_stack>>

one_vars ==
    <<o_text, o_translator, o_attempt, o_last, o_result, o_calls, o_pc>>

rs_vars ==
    <<tm_driver, batch_calls, frag_calls, fix_at, fixed_vals>>

sc_vars ==
    <<sc_core, sc_result, sc_pc>>

vars == <<gate_vars, span_vars, code_vars, site_vars, group_vars, tm_vars, bb_vars, main_vars, stack_vars, one_vars, rs_vars, sc_vars>>

\* the variables of the Comment Finder while another part of the program runs
SpanIdle == lexemes = <<>> /\ spans = <<>> /\ span_pc = "idle"

\* the variables of the comment driver while another part of the program runs
CodeIdle ==
    /\ code = <<>> /\ cache = <<>> /\ missing_set = {} /\ submitted = {}
    /\ updated = <<>> /\ changed = FALSE /\ first = <<>> /\ code_pc = "idle"

\* the variables of the site while another part of the program runs
SiteIdle ==
    /\ page = <<>> /\ store = <<>> /\ history = <<>> /\ page0 = <<>> /\ store0 = <<>>
    /\ before = <<>> /\ parts = <<>> /\ text_entries = <<>> /\ attr_entries = <<>>
    /\ sent = {} /\ site_changed = FALSE

\* the variables of translate_group_payload while another part of the
\* program runs
GroupIdle ==
    group_texts = <<>> /\ response = <<>> /\ group_result = [none |-> TRUE, vals |-> <<>>]
        /\ group_pc = "idle"

\* the variables of translate_missing while another part of the program runs
MissingIdle ==
    /\ to_resolve = <<>> /\ tm_cache = <<>> /\ batches = <<>> /\ batch_no = 0
    /\ attempt = 0 /\ fallback_at = 0 /\ translated_vals = <<>> /\ call = <<>>
    /\ tm_pc = "idle" /\ batch_outcome = "none" /\ cache_file = <<>>

\* the variables of build_batches while another part of the program runs
BatchesIdle ==
    /\ bb_items = <<>> /\ bb_max_len = 0 /\ bb_driver = "none" /\ bb_batches = <<>>
    /\ bb_pc = "idle"

\* the variables of main while another part of the program runs
MainIdle ==
    /\ m_driver = "none" /\ m_seed = <<>> /\ m_disk = <<>> /\ m_files = <<>> /\ m_cache = <<>>
    /\ m_missing = {} /\ m_i = 0 /\ m_handled = {} /\ m_errors = {} /\ m_requested = {}
    /\ m_pc = "idle" /\ m_crash = "none"

\* the variables of the Tag Context Stack while another part of the program
\* runs
StackIdle ==
    st_tokens = <<>> /\ st_pos = 0 /\ st_stack = <<>>

\* the variables of translate_one while another part of the program runs
OneIdle ==
    /\ o_text = <<>> /\ o_translator = 0 /\ o_attempt = 0 /\ o_last = <<>> /\ o_result = <<>>
    /\ o_calls = <<>> /\ o_pc = "idle"

\* the variables of the comment driver's translate_missing and the counts of
\* backend calls while another part of the program runs
ResolveIdle ==
    /\ tm_driver = "none" /\ batch_calls = 0 /\ frag_calls = 0 /\ fix_at = 0 /\ fixed_vals = <<>>

\* the variables of the classifier while another part of the program runs
ClassifyIdle == sc_core = <<>> /\ sc_result = FALSE /\ sc_pc = "idle"

\* the variables of the Quality Gate while another part of the program runs
GateIdle == source = <<>> /\ translated = <<>> /\ bad = FALSE /\ gate_pc = "idle"

\* ------------------------------------------------------------------------
\* Bounded inputs: texts put together from a few pieces
\* ------------------------------------------------------------------------

RECURSIVE TextsOf(_, _)
\* the texts made of at most n pieces
TextsOf(pieces, n) ==
    IF n = 0 THEN {<<>>}
    ELSE LET shorter == TextsOf(pieces, n - 1)
         IN  shorter \cup {t \o p : t \in shorter, p \in pieces}

\* the number of pieces of a fragment handed to the classifier
MaxFragPieces == 3

\* words with and without hint words, a Polish letter, white space, code
\* punctuation, a URL scheme and a mojibake pair
FragPieces ==
    { <<"t","h","e">>, <<"v","a","l","u","e">>, <<"k","o","t">>, <<" ">>, <<"\n">>,
      <<"U+0105">>, <<";">>, <<"w","w","w",".">>, <<"U+00C3","U+00B3">> }

Fragments == TextsOf(FragPieces, MaxFragPieces)

\* ------------------------------------------------------------------------
\* The Quality Gate on one pair (source, translated)
\* ------------------------------------------------------------------------

\* the candidates a backend may return for a source: nothing, white space,
\* an echo of the source, the echo with other white space around it, or
\* another text
CandidatesFor(src) ==
    {<<>>, <<" ", "\n">>, src, <<" ">> \o strip(src) \o <<"\n">>} \cup TextsOf(FragPieces, 1)

GateInit ==
    /\ source \in Fragments
    /\ translated \in CandidatesFor(source)
    /\ bad = FALSE
    /\ gate_pc = "input"
    /\ SpanIdle /\ CodeIdle /\ SiteIdle /\ GroupIdle /\ MissingIdle /\ BatchesIdle
    /\ ClassifyIdle /\ OneIdle /\ ResolveIdle /\ MainIdle /\ StackIdle

\* is_bad_translation(source, translated) is called
Judge ==
    /\ gate_pc = "input"
    /\ bad' = is_bad_translation(source, translated)
    /\ gate_pc' = "judged"
    /\ UNCHANGED <<source, translated, span_vars, code_vars, site_vars, group_vars, tm_vars,
                   bb_vars, main_vars, stack_vars, one_vars, rs_vars, sc_vars>>

SpecGate == GateInit /\ [][Judge]_vars

\* C5: the Quality Gate rejects every candidate that is empty after trimming,
\* and every candidate that, trimmed, equals the trimmed source when
\* should_translate_comment accepts the source.
C5_QualityGate ==
    gate_pc = "judged" =>
        /\ (strip(translated) = <<>> => bad)
        /\ (strip(translated) = strip(source) /\ should_translate_comment(source) => bad)

\* a translation-worthy source that does not look English by itself, echoed
\* with other white space around it, has been rejected
C5_Witness ==
    /\ gate_pc = "judged"
    /\ translated # source
    /\ strip(translated) = strip(source)
    /\ should_translate_comment(source)
    /\ ~looks_english(source)
    /\ bad

\* ------------------------------------------------------------------------
\* The Comment Finder on code put together from C++ lexemes
\* ------------------------------------------------------------------------

\* the number of lexemes of a code text handed to find_comment_spans
MaxLexemes == 3

Lexeme(text, kind) == [text |-> text, kind |-> kind]

\* plain text, terminated comments that hold a quote character, and
\* terminated literals: "//", '/*', "\"//", '"', "\\", R"(")", R"d(//)d"
Lexemes ==
    { Lexeme(<<"a">>, "plain"),
      Lexeme(<<" ">>, "plain"),
      Lexeme(<<"/", "/", "'", "\n">>, "comment"),
      Lexeme(<<"/", "*", "\"", "*", "/">>, "comment"),
      Lexeme(<<"\"", "/", "/", "\"">>, "literal"),
      Lexeme(<<"'", "/", "*", "'">>, "literal"),
      Lexeme(<<"\"", "\\", "\"", "/", "/", "\"">>, "literal"),
      Lexeme(<<"'", "\"", "'">>, "literal"),
      Lexeme(<<"\"", "\\", "\\", "\"">>, "literal"),
      Lexeme(<<"R", "\"", "(", "\"", ")", "\"">>, "literal"),
      Lexeme(<<"R", "\"", "d", "(", "/", "/", ")", "d", "\"">>, "literal") }

\* the code text a sequence of lexemes spells
CodeOf(ls) == Concat([k \in 1..Len(ls) |-> ls[k].text])

\* the offset in CodeOf(ls) at which lexeme k starts
OffsetOf(ls, k) == Len(CodeOf(SubSeq(ls, 1, k - 1)))

LexemeSeqs == UNION {[1..n -> Lexemes] : n \in 0..MaxLexemes}

SpanInit ==
    /\ lexemes \in LexemeSeqs
    /\ spans = <<>>
    /\ span_pc = "input"
    /\ GateIdle /\ CodeIdle /\ SiteIdle /\ GroupIdle /\ MissingIdle /\ BatchesIdle
    /\ ClassifyIdle /\ OneIdle /\ ResolveIdle /\ MainIdle /\ StackIdle

\* find_comment_spans(code) is called
FindSpans ==
    /\ span_pc = "input"
    /\ spans' = find_comment_spans(CodeOf(lexemes))
    /\ span_pc' = "done"
    /\ UNCHANGED <<lexemes, gate_vars, code_vars, site_vars, group_vars, tm_vars, bb_vars,
                   main_vars, stack_vars, one_vars, rs_vars, sc_vars>>

SpecSpans == SpanInit /\ [][FindSpans]_vars

\* a text holds // or /*
HoldsMarker(text) == Contains(text, <<"/", "/">>) \/ Contains(text, <<"/", "*">>)

\* C2: for a terminated quoted literal that is opened outside any comment and
\* holds // or /*, find_comment_spans returns no span that starts inside it.
C2_NoSpanInsideLiteral ==
    span_pc = "done" =>
        \A k \in 1..Len(lexemes) :
            lexemes[k].kind = "literal" /\ HoldsMarker(lexemes[k].text) =>
                \A j \in 1..Len(spans) :
                    ~(/\ OffsetOf(lexemes, k) < spans[j][1]
                      /\ spans[j][1] < OffsetOf(lexemes, k) + Len(lexemes[k].text))

\* a literal with an escaped quote before its //, after a comment that holds
\* a quote and before another comment: both comments are found
C2_Witness ==
    /\ span_pc = "done"
    /\ Len(lexemes) = 3
    /\ lexemes[1].kind = "comment"
    /\ lexemes[2].text = <<"\"", "\\", "\"", "/", "/", "\"">>
    /\ lexemes[3].kind = "comment"
    /\ Len(spans) = 2

\* ------------------------------------------------------------------------
\* The Comment Finder on code put together from markers and single characters
\* ------------------------------------------------------------------------

\* the number of pieces of a code text handed to find_comment_spans
MaxSpanPieces == 4

\* the comment markers, their characters, the line ends, a quote and a letter
SpanPieces ==
    { Lexeme(<<"/", "/">>, "piece"),
      Lexeme(<<"/", "*">>, "piece"),
      Lexeme(<<"*", "/">>, "piece"),
      Lexeme(<<"/">>, "piece"),
      Lexeme(<<"*">>, "piece"),
      Lexeme(<<"\n">>, "piece"),
      Lexeme(<<"\r">>, "piece"),
      Lexeme(<<"\"">>, "piece"),
      Lexeme(<<"a">>, "piece") }

PiecesInit ==
    /\ lexemes \in UNION {[1..n -> SpanPieces] : n \in 0..MaxSpanPieces}
    /\ spans = <<>>
    /\ span_pc = "input"
    /\ GateIdle /\ CodeIdle /\ SiteIdle /\ GroupIdle /\ MissingIdle /\ BatchesIdle
    /\ ClassifyIdle /\ OneIdle /\ ResolveIdle /\ MainIdle /\ StackIdle

SpecPieces == PiecesInit /\ [][FindSpans]_vars

\* the span <<s, e, kind>> is well-formed in the code text: it lies in the
\* text, its opening marker stands right before it, and it ends where a
\* comment of its kind ends
WellFormedSpan(text, s, e, kind) ==
    /\ 0 <= s /\ s <= e /\ e <= Len(text)
    /\ kind \in {"line", "block"}
    /\ s >= 2
    /\ Slice(text, s - 2, s) = IF kind = "line" THEN <<"/", "/">> ELSE <<"/", "*">>
    /\ kind = "line" =>
          /\ \A i \in (s + 1)..e : text[i] \notin {"\r", "\n"}
          /\ e = Len(text) \/ text[e + 1] \in {"\r", "\n"}
    /\ kind = "block" =>
          /\ \A i \in s..(e - 1) : i + 2 <= Len(text) => Slice(text, i, i + 2) # <<"*", "/">>
          /\ e = Len(text) \/ (e + 2 <= Len(text) /\ Slice(text, e, e + 2) = <<"*", "/">>)

\* C19: the spans find_comment_spans returns are in strictly increasing
\* order and disjoint, each lies in the code text right after its opening
\* marker // or /*, a line span ends at the first CR or LF or at the end of
\* the text, and a block span ends before the first */ at or after its
\* start, or at the end of the text when there is none.
C19_SpansWellFormed ==
    span_pc = "done" =>
        /\ \A j \in 1..Len(spans) :
              WellFormedSpan(CodeOf(lexemes), spans[j][1], spans[j][2], spans[j][3])
        /\ \A j, k \in 1..Len(spans) :
              j < k => spans[j][1] < spans[k][1] /\ spans[j][2] <= spans[k][1]

\* a line comment that a CR ends, followed by a block comment that nothing
\* ends
C19_Witness ==
    /\ span_pc = "done"
    /\ Len(spans) = 2
    /\ spans[1][3] = "line"
    /\ spans[1][2] < Len(CodeOf(lexemes))
    /\ CodeOf(lexemes)[spans[1][2] + 1] = "\r"
    /\ spans[2][3] = "block"
    /\ spans[2][2] = Len(CodeOf(lexemes))

\* ------------------------------------------------------------------------
\* The comment driver on one <code> element: main's scan of the element
\* (collect_comment_units), its call of translate_missing, and the rewrite
\* ------------------------------------------------------------------------

\* the number of pieces of the code text of the element
MaxCodePieces == 3

\* comment markers, a line break, white space, a block decoration, a
\* fragment with two hint words, one with a single hint word, a Polish
\* letter and a semicolon
CodePieces ==
    { <<"/", "/">>, <<"/", "*">>, <<"*", "/">>, <<"\n">>, <<" ">>, <<"*">>,
      <<"u","s","e"," ","i","t">>, <<"s","e","t"," ","x">>, <<"U+0105">>, <<";">> }

CodeTexts == TextsOf(CodePieces, MaxCodePieces)

\* a finite function as a cache
CacheOf(k1, v1, k2, v2) == [k \in {k1, k2} |-> IF k = k1 THEN v1 ELSE v2]

\* the caches a run starts with: empty; one in which a translation is itself
\* a key; one that translates the fragment with two hint words
Caches ==
    { <<>>,
      CacheOf(<<"s","e","t"," ","x">>, <<"g","e","t"," ","x">>,
              <<"g","e","t"," ","x">>, <<"d","a","j"," ","x">>),
      CacheOf(<<"u","s","e"," ","i","t">>, <<"u","U+017C","y","j">>,
              <<"k","o","t">>, <<"k","o","t">>) }

\* what translate_missing may store for a fragment: the fragment itself
\* (the backend echoes it, or every attempt fails) or a translation
TranslationsOf(t) == {t, <<"k","o","t">>}

CodeInit ==
    /\ code \in CodeTexts
    /\ cache \in Caches
    /\ missing_set = {}
    /\ submitted = {}
    /\ updated = <<>>
    /\ changed = FALSE
    /\ first = <<>>
    /\ code_pc = "scan"
    /\ GateIdle /\ SpanIdle /\ SiteIdle /\ GroupIdle /\ MissingIdle /\ BatchesIdle
    /\ ClassifyIdle /\ OneIdle /\ ResolveIdle /\ MainIdle /\ StackIdle

\* main, lines 542-546: collect_missing_from_file on the element
Collect ==
    /\ code_pc = "scan"
    /\ missing_set' = collect_comment_units(code, missing_set, cache)
    /\ code_pc' = "translate"
    /\ UNCHANGED <<code, cache, submitted, updated, changed, first, gate_vars, span_vars,
                   site_vars, group_vars, tm_vars, bb_vars, main_vars, stack_vars, one_vars,
                   rs_vars, sc_vars>>

\* main, lines 548-553: translate_missing(sorted(missing_set), cache, ...)
\* hands every fragment of missing_set to the backend and stores one
\* result for each
Translate ==
    /\ code_pc = "translate"
    /\ IF missing_set # {}
       THEN /\ submitted' = submitted \cup missing_set
            /\ \E tr \in [missing_set -> UNION {TranslationsOf(t) : t \in missing_set}] :
                  /\ \A t \in missing_set : tr[t] \in TranslationsOf(t)
                  /\ cache' = [k \in DOMAIN cache \cup missing_set |->
                                  IF k \in missing_set THEN tr[k] ELSE cache[k]]
       ELSE UNCHANGED <<submitted, cache>>
    /\ code_pc' = "rewrite"
    /\ UNCHANGED <<code, missing_set, updated, changed, first, gate_vars, span_vars,
                   site_vars, group_vars, tm_vars, bb_vars, main_vars, stack_vars, one_vars,
                   rs_vars, sc_vars>>

\* process_file, lines 487-488: rewrite_code_comments on the element
Rewrite ==
    /\ code_pc = "rewrite"
    /\ updated' = rewrite_code_comments(code, cache)[1]
    /\ changed' = rewrite_code_comments(code, cache)[2]
    /\ code_pc' = "done"
    /\ UNCHANGED <<code, cache, missing_set, submitted, first, gate_vars, span_vars,
                   site_vars, group_vars, tm_vars, bb_vars, main_vars, stack_vars, one_vars,
                   rs_vars, sc_vars>>

\* rewrite_code_comments on the text the first rewrite returned, with the
\* same cache
RewriteAgain ==
    /\ code_pc = "done"
    /\ first' = updated
    /\ updated' = rewrite_code_comments(updated, cache)[1]
    /\ changed' = rewrite_code_comments(updated, cache)[2]
    /\ code_pc' = "again"
    /\ UNCHANGED <<code, cache, missing_set, submitted, gate_vars, span_vars, site_vars,
                   group_vars, tm_vars, bb_vars, main_vars, stack_vars, one_vars, rs_vars,
                   sc_vars>>

CodeNext == Collect \/ Translate \/ Rewrite \/ RewriteAgain

SpecCode == CodeInit /\ [][CodeNext]_vars

\* the comment fragments of a code text: the trimmed body of every comment,
\* and of every line of a multi-line block comment
CommentFragments(text) ==
    LET sp == find_comment_spans(text)
    IN  UNION {span_units(Slice(text, sp[k][1], sp[k][2]), sp[k][3], <<>>) : k \in 1..Len(sp)}

\* the number of English hint words of a fragment
HintWords(t) == english_score(t).hits

\* what the scan and the call of translate_missing have done with a
\* fragment that has to be submitted
Handled(f) ==
    /\ should_translate_comment(f)
    /\ code_pc = "translate" /\ f \notin DOMAIN cache => f \in missing_set
    /\ code_pc \in {"rewrite", "done", "again"} =>
          /\ f \in DOMAIN cache
          /\ f \in missing_set => f \in submitted

\* C7 as stated: every comment fragment with at least two English hint words
\* is accepted by should_translate_comment and, when not cached, collected by
\* collect_comment_units and submitted for translation.
C7_TwoHintWordsSubmitted ==
    code_pc \in {"translate", "rewrite", "done", "again"} =>
        \A f \in CommentFragments(code) : HintWords(f) >= 2 => Handled(f)

\* C7, amended: every comment fragment with at least two English hint words
\* that is at most 500 characters long, holds no URL and holds no Polish
\* diacritic letter is accepted by should_translate_comment and, when not
\* cached, collected by collect_comment_units and submitted for translation.
C7_TwoHintWordsSubmittedAmended ==
    code_pc \in {"translate", "rewrite", "done", "again"} =>
        \A f \in CommentFragments(code) :
            /\ HintWords(f) >= 2
            /\ Len(f) <= MaxCommentLen
            /\ ~URL_RE_search(f)
            /\ ~PL_CHARS_RE_search(f)
            => Handled(f)

\* a fragment with two hint words that also looks like code (it holds a
\* semicolon) has been collected and handed to the backend
C7_Witness ==
    /\ code_pc = "rewrite"
    /\ \E f \in CommentFragments(code) :
          /\ HintWords(f) >= 2
          /\ is_mostly_code_like(f)
          /\ f \in missing_set
          /\ f \in submitted

\* C1: applying rewrite_code_comments a second time, to the text the first
\* rewrite returned and with the same cache, returns the same text with
\* changed = False.
C1_RewriteIdempotent ==
    code_pc = "again" => updated = first /\ changed = FALSE

\* ------------------------------------------------------------------------
\* SpecSite: the two drivers run, one after the other, on a site of one HTML
\* file and one cache file
\* ------------------------------------------------------------------------

\* the number of pieces of a document
MaxDocPieces == 1

\* the number of driver runs on the site
MaxRuns == 2

HelloThere == <<"H","e","l","l","o"," ","t","h","e","r","e">>

ReturnValue == <<"r","e","t","u","r","n"," ","v","a","l","u","e">>

\* "Cześć"
Czesc == <<"C","z","e","U+015B","U+0107">>

\* "zwróć wartość"
ZwrocWartosc == <<"z","w","r","U+00F3","U+0107"," ","w","a","r","t","o","U+015B","U+0107">>

\* three Polish diacritic letters
PolishOnlyText == <<"U+0105","U+0119","U+0105">>

POpen == <<"<","p",">">>

PClose == <<"<","/","p",">">>

CodeOpen == <<"<","c","o","d","e",">">>

CodeClose == <<"<","/","c","o","d","e",">">>

PreClose == <<"<","/","p","r","e",">">>

ScenarioDoc ==
    POpen \o HelloThere \o PClose \o CodeOpen \o <<"/","/"," ">> \o ReturnValue \o CodeClose

\* the scenario's document, a paragraph, code elements with comments, opaque
\* elements with text, with an attribute of the allow-list and with a nested
\* tag, an image, bare text, Polish text and an opaque start tag
DocPieces ==
    { ScenarioDoc,
      POpen \o HelloThere \o PClose,
      CodeOpen \o <<"/","/"," ","u","s","e"," ","i","t"," ">> \o PolishOnlyText \o CodeClose,
      CodeOpen \o <<"/","/"," ","s","e","t"," ","x">> \o CodeClose,
      <<"<","p","r","e"," ","t","i","t","l","e","=","\"">> \o HelloThere \o <<"\"",">">>
          \o HelloThere \o PreClose,
      <<"<","p","r","e",">","<","i","m","g"," ","a","l","t","=","'">> \o ReturnValue
          \o <<"'",">">> \o PreClose,
      <<"<","i","m","g"," ","a","l","t","=","\"">> \o HelloThere \o <<"\"",">">>,
      HelloThere,
      PolishOnlyText,
      <<"<","p","r","e",">">> }

Docs == TextsOf(DocPieces, MaxDocPieces)

ScenarioCache == CacheOf(HelloThere, Czesc, ReturnValue, ZwrocWartosc)

\* the scenario's cache, no cache file, and a cache in which a translation is
\* itself a key
SiteCaches ==
    { ScenarioCache,
      <<>>,
      CacheOf(<<"s","e","t"," ","x">>, <<"g","e","t"," ","x">>,
              <<"g","e","t"," ","x">>, <<"d","a","j"," ","x">>) }

SiteInit ==
    /\ page \in Docs
    /\ store \in SiteCaches
    /\ history = <<>>
    /\ page0 = page
    /\ store0 = store
    /\ before = <<>>
    /\ parts = <<>>
    /\ text_entries = <<>>
    /\ attr_entries = <<>>
    /\ sent = {}
    /\ site_changed = FALSE
    /\ GateIdle /\ SpanIdle /\ CodeIdle /\ GroupIdle /\ MissingIdle /\ BatchesIdle
    /\ ClassifyIdle /\ OneIdle /\ ResolveIdle /\ MainIdle /\ StackIdle

\* what translate_missing of either driver can leave in the cache for the
\* fragments it has to resolve: one result of the backend for each
Resolutions(missing) ==
    {tr \in [missing -> UNION {TranslationsOf(t) : t \in missing}] :
        \A t \in missing : tr[t] \in TranslationsOf(t)}

\* cache after the assignments cache[texts[i]] = tr of translate_missing
cache_set(old, tr) ==
    [k \in DOMAIN old \cup DOMAIN tr |-> IF k \in DOMAIN tr THEN tr[k] ELSE old[k]]

\* main of translate_learncpp_pl.py on the site: the cache is loaded,
\* process_file scans the file, translate_missing resolves the fragments
\* that are not cached, the replacements are applied, and the file (when
\* changed) and the cache are written
ProseRun ==
    /\ Len(history) < MaxRuns
    /\ \E split \in {TAG_SPLIT_RE_split(page)}, entries \in {prose_entries(page)} :
          LET texts   == to_translate(entries)
              missing == {texts[k] : k \in 1..Len(texts)} \ DOMAIN store
          IN  \E tr \in Resolutions(missing) :
                 \E new \in {apply_entries(split, entries, cache_set(store, tr))} :
                    /\ page' = written_text(page, split, new)
                    /\ site_changed' = (new # split)
                    /\ store' = cache_set(store, tr)
                    /\ parts' = new
                    /\ text_entries' = entries.text_entries
                    /\ attr_entries' = entries.attr_entries
                    /\ sent' = missing
    /\ before' = page
    /\ history' = Append(history, "prose")
    /\ UNCHANGED <<page0, store0, gate_vars, span_vars, code_vars, group_vars, tm_vars, bb_vars,
                   main_vars, stack_vars, one_vars, rs_vars, sc_vars>>

\* main of translate_code_comments_pl.py on the site, without a seed cache:
\* the cache is loaded and purged, the file is scanned for missing
\* fragments, translate_missing resolves them, process_file rewrites the
\* file, and the file (when changed) and the cache are written
CommentRun ==
    /\ Len(history) < MaxRuns
    /\ \E cache0 \in {purge_stale(store)} :
          \E missing \in {collect_missing_from_file(page, cache0, {})} :
             \E tr \in Resolutions(missing) :
                \E result \in {process_file_comments(page, cache_set(cache0, tr))} :
                   /\ page' = result[1]
                   /\ site_changed' = result[2]
                   /\ store' = cache_set(cache0, tr)
                   /\ sent' = missing
    /\ parts' = <<>>
    /\ text_entries' = <<>>
    /\ attr_entries' = <<>>
    /\ before' = page
    /\ history' = Append(history, "comments")
    /\ UNCHANGED <<page0, store0, gate_vars, span_vars, code_vars, group_vars, tm_vars, bb_vars,
                   main_vars, stack_vars, one_vars, rs_vars, sc_vars>>

SiteNext == ProseRun \/ CommentRun

SpecSite == SiteInit /\ [][SiteNext]_vars

\* the driver of the last run on the site, "none" before the first
LastRun == IF history = <<>> THEN "none" ELSE history[Len(history)]

RECURSIVE StackBefore(_, _)
\* the Tag Context Stack when the scan loop of process_file reaches the
\* token at index idx
StackBefore(split, idx) ==
    IF idx = 0 THEN <<>>
    ELSE IF (idx - 1) % 2 = 1 THEN step_skip_stack(StackBefore(split, idx - 1), split[idx])
    ELSE StackBefore(split, idx - 1)

\* the indexes of the text tokens of a split document
TextIndexes(split) == {idx \in 0..(Len(split) - 1) : idx % 2 = 0}

\* the indexes of the tag tokens of a split document
TagIndexes(split) == {idx \in 0..(Len(split) - 1) : idx % 2 = 1}

\* the fragment has a letter and all its letters are Polish diacritic letters
PolishOnly(f) ==
    /\ \E i \in 1..Len(f) : isalpha(f[i])
    /\ \A i \in 1..Len(f) : isalpha(f[i]) => f[i] \in PL_CHARS

\* C6: a fragment whose letters are all Polish diacritic characters is never
\* submitted for translation by either driver: no run of either driver hands
\* such a fragment to the backend, and the prose driver takes no such
\* fragment as a text or attribute candidate.
C6_PolishOnlyNeverSubmitted ==
    /\ \A f \in sent : ~PolishOnly(f)
    /\ \A k \in 1..Len(text_entries) : ~PolishOnly(text_entries[k].core)
    /\ \A k \in 1..Len(attr_entries) : ~PolishOnly(attr_entries[k].val)

\* C8: the scenario's document with the scenario's cache: the prose driver
\* replaces only the text of <p>, the comment driver replaces only the body
\* of the comment inside <code> and keeps "// ", each reports changed = true
\* and calls the backend for nothing, and after both the document is
\* <p>Cze[U+015B][U+0107]</p><code>// zwr[U+00F3][U+0107] warto[U+015B][U+0107]</code>.
C8_Scenario ==
    LET proseDone   == POpen \o Czesc \o PClose
        proseTodo   == POpen \o HelloThere \o PClose
        commentDone == CodeOpen \o <<"/","/"," ">> \o ZwrocWartosc \o CodeClose
        commentTodo == CodeOpen \o <<"/","/"," ">> \o ReturnValue \o CodeClose
    IN  page0 = ScenarioDoc /\ store0 = ScenarioCache =>
           /\ history = <<"prose">> =>
                 page = proseDone \o commentTodo /\ site_changed /\ sent = {}
           /\ history = <<"comments">> =>
                 page = proseTodo \o commentDone /\ site_changed /\ sent = {}
           /\ history \in {<<"prose", "comments">>, <<"comments", "prose">>} =>
                 /\ page = proseDone \o commentDone
                 /\ site_changed
                 /\ sent = {}
                 /\ store = ScenarioCache

\* both drivers have run on the scenario's document with the scenario's cache
C8_Witness ==
    /\ page0 = ScenarioDoc
    /\ store0 = ScenarioCache
    /\ history = <<"prose", "comments">>
    /\ site_changed

\* C9: in the prose driver's process_file a text token is a translation
\* candidate, and is rewritten, only if the Tag Context Stack is empty when
\* the scan reaches it; a text token reached while the stack is not empty is
\* written back unchanged, and nothing is sent to the backend that is not
\* the core of a candidate taken with an empty stack or an attribute value.
C9_TextOnlyWithEmptyStack ==
    LastRun = "prose" =>
        LET split == TAG_SPLIT_RE_split(before)
        IN  /\ \A k \in 1..Len(text_entries) :
                   StackBefore(split, text_entries[k].idx) = <<>>
            /\ \A idx \in TextIndexes(split) :
                   /\ parts[idx + 1] # split[idx + 1] => StackBefore(split, idx) = <<>>
                   /\ StackBefore(split, idx) # <<>> => parts[idx + 1] = split[idx + 1]
            /\ \A f \in sent :
                   \/ \E k \in 1..Len(text_entries) :
                         /\ text_entries[k].core = f
                         /\ StackBefore(split, text_entries[k].idx) = <<>>
                   \/ \E k \in 1..Len(attr_entries) : attr_entries[k].val = f

\* the prose driver has run on a document with translatable text inside an
\* opaque element whose translation is not cached, and has rewritten text
\* outside of it
C9_Witness ==
    /\ LastRun = "prose"
    /\ LET split == TAG_SPLIT_RE_split(before)
       IN  /\ \E idx \in TextIndexes(split) :
                 /\ StackBefore(split, idx) # <<>>
                 /\ should_translate(split[idx + 1])
                 /\ split[idx + 1] \notin DOMAIN store
           /\ \E idx \in TextIndexes(split) : parts[idx + 1] # split[idx + 1]

\* C10: the allow-listed attributes of a tag token are scanned and are
\* eligible for translation whatever the depth of the Tag Context Stack at
\* that tag: every attribute of the allow-list with a translatable value, of
\* every tag token, is among the attribute candidates of process_file.
C10_AttributesAtAnyDepth ==
    LastRun = "prose" =>
        LET split == TAG_SPLIT_RE_split(before)
        IN  \A idx \in TagIndexes(split) :
               LET found == attr_entries_of(idx, split[idx + 1])
               IN  \A j \in 1..Len(found) :
                      \E k \in 1..Len(attr_entries) : attr_entries[k] = found[j]

\* ------------------------------------------------------------------------
\* SpecGroup: translate_group_payload on lists of fragments, with a backend
\* that echoes the payload, cuts its end, folds its case or loses its start
\* ------------------------------------------------------------------------

\* the number of fragments of a batch
MaxGroupTexts == 2

\* plain fragments, the empty fragment, and fragments that hold a marker, the
\* end-marker or a part of one
GroupFragments ==
    { <<>>,
      <<"a">>,
      <<"a"," ","b">>,
      Marker(1),
      <<"x">> \o MEND,
      Marker(0) \o <<"b">>,
      <<">",">",">">>,
      <<"<","<","<","M">> }

RECURSIVE ListsOf(_, _)
\* the lists of at most n elements of S
ListsOf(S, n) ==
    IF n = 0 THEN {<<>>}
    ELSE LET shorter == ListsOf(S, n - 1)
         IN  shorter \cup {Append(l, x) : l \in shorter, x \in S}

GroupInit ==
    /\ group_texts \in ListsOf(GroupFragments, MaxGroupTexts)
    /\ response = <<>>
    /\ group_result = NoneResult
    /\ group_pc = "input"
    /\ GateIdle /\ SpanIdle /\ CodeIdle /\ SiteIdle /\ MissingIdle /\ BatchesIdle /\ OneIdle
    /\ ClassifyIdle /\ ResolveIdle /\ MainIdle /\ StackIdle

\* what translator.translate can return for a payload: the payload itself,
\* the payload without its end-marker, the payload in lower case, and the
\* payload without its first marker
Responses(payload) ==
    { payload,
      Slice(payload, 0, Len(payload) - Len(MEND)),
      lower(payload),
      Slice(payload, Len(Marker(0)), Len(payload)) }

\* a call of translate_group_payload(translator, texts)
TranslateGroup ==
    /\ group_pc = "input"
    /\ \E translated_payload \in Responses(build_payload(group_texts)) :
          /\ response' = translated_payload
          /\ group_result' = translate_group_payload(group_texts, translated_payload)
    /\ group_pc' = "done"
    /\ UNCHANGED <<group_texts, gate_vars, span_vars, code_vars, site_vars, tm_vars, bb_vars,
                   main_vars, stack_vars, one_vars, rs_vars, sc_vars>>

SpecGroup == GroupInit /\ [][TranslateGroup]_vars

\* C3: with a backend that returns the payload unchanged,
\* translate_group_payload returns exactly the list texts, in order, for
\* every list of fragments whose encoded length is under the batch budget.
C3_BatchRoundTrip ==
    /\ group_pc = "done"
    /\ response = build_payload(group_texts)
    /\ Len(response) <= DefaultMaxLen
    => group_result = [none |-> FALSE, vals |-> group_texts]

\* ------------------------------------------------------------------------
\* SpecMissing: translate_missing of the prose driver on one document's list
\* of candidates; its steps that both drivers share ask tm_driver
\* ------------------------------------------------------------------------

\* the number of candidates of a document
MaxTexts == 3

\* the length of a long paragraph
LongLen == 3790

\* range(5) at line 120: the attempts on a batch
BatchAttempts == 5

\* range(5) at line 133: the attempts on one fragment of the fallback
FallbackAttempts == 5

\* a paragraph that fills a batch by itself
LongText == [i \in 1..LongLen |-> "x"]

\* two short fragments and a long one
MissingFragments == { <<"a">>, <<"b">>, LongText }

\* no cache file, and a cache that holds one of the fragments
MissingCaches == { <<>>, [k \in {<<"b">>} |-> <<"k","o","t">>] }

MissingInit ==
    /\ to_resolve \in ListsOf(MissingFragments, MaxTexts)
    /\ tm_cache \in MissingCaches
    /\ batches = <<>>
    /\ batch_no = 0
    /\ attempt = 0
    /\ fallback_at = 0
    /\ translated_vals = <<>>
    /\ call = <<>>
    /\ tm_pc = "start"
    /\ batch_outcome = "none"
    /\ cache_file = tm_cache
    /\ tm_driver = "prose"
    /\ batch_calls = 0
    /\ frag_calls = 0
    /\ fix_at = 0
    /\ fixed_vals = <<>>
    /\ GateIdle /\ SpanIdle /\ CodeIdle /\ SiteIdle /\ GroupIdle /\ BatchesIdle /\ MainIdle
    /\ ClassifyIdle /\ OneIdle /\ StackIdle

\* vals of the batch being resolved (line 118)
BatchVals == [k \in 1..Len(batches[batch_no]) |-> batches[batch_no][k][2]]

\* idxs of the batch being resolved (line 117)
BatchIdxs == [k \in 1..Len(batches[batch_no]) |-> batches[batch_no][k][1]]

\* lines 110-115: missing and the batches
Begin ==
    /\ tm_pc = "start"
    /\ LET missing == missing_items(to_resolve, tm_cache)
       IN  IF missing = <<>>
           THEN /\ tm_pc' = "done"
                /\ UNCHANGED <<batches, batch_no>>
           ELSE /\ batches' = IF tm_driver = "prose"
                               THEN build_batches_prose(missing, DefaultMaxLen)
                               ELSE build_batches_comments(missing, DefaultMaxLen)
                /\ batch_no' = 1
                /\ tm_pc' = "batch"
    /\ UNCHANGED <<to_resolve, tm_cache, attempt, fallback_at, translated_vals, call,
                   batch_outcome, cache_file, gate_vars, span_vars, code_vars, site_vars,
                   group_vars, bb_vars, main_vars, stack_vars, one_vars, rs_vars, sc_vars>>

\* answers of the backend that translate_group_payload cannot parse: nothing,
\* and an answer that has the end marker and no positional marker
UnparsableResponses == { <<>>, MEND }

\* lines 120-127: one attempt on the batch; translate_group_payload returns
\* a list of as many strings as the batch has fragments, or returns None, or
\* the backend raises
BatchCall ==
    /\ tm_pc = "batch"
    /\ attempt < BatchAttempts
    /\ call' = BatchVals
    /\ batch_calls' = IF attempt = 0 THEN 1 ELSE batch_calls + 1
    /\ \/ /\ tm_driver = "prose"
          /\ \E tr \in Resolutions({BatchVals[k] : k \in 1..Len(BatchVals)}) :
                translated_vals' = [k \in 1..Len(BatchVals) |-> tr[BatchVals[k]]]
          /\ tm_pc' = "store"
          /\ batch_outcome' = "ok"
          /\ UNCHANGED <<attempt, fallback_at>>
       \/ /\ \/ /\ \E resp \in UnparsableResponses :
                      translate_group_payload(BatchVals, resp) = NoneResult
                /\ batch_outcome' = "unparsable"
             \/ batch_outcome' = "raised"
          /\ attempt' = IF attempt + 1 < BatchAttempts THEN attempt + 1 ELSE 0
          /\ tm_pc' = IF attempt + 1 < BatchAttempts THEN "batch" ELSE "fallback"
          /\ fallback_at' = IF attempt + 1 < BatchAttempts THEN fallback_at ELSE 1
          /\ translated_vals' = <<>>
    /\ UNCHANGED <<to_resolve, tm_cache, batches, batch_no, cache_file,
                   tm_driver, frag_calls, fix_at, fixed_vals,
                   gate_vars, span_vars, code_vars, site_vars, group_vars, bb_vars, main_vars,
                   stack_vars, one_vars, sc_vars>>

\* lines 131-141: one attempt on one fragment of the batch in the fallback;
\* the backend returns a string or raises, and after the last attempt the
\* fragment stands for its own translation
FallbackCall ==
    /\ tm_pc = "fallback"
    /\ tm_driver = "prose"
    /\ frag_calls' = IF attempt = 0 THEN 1 ELSE frag_calls + 1
    /\ LET t    == BatchVals[fallback_at]
           done == fallback_at = Len(BatchVals)
       IN  /\ call' = <<t>>
           /\ \/ /\ \E tr \in TranslationsOf(t) : translated_vals' = Append(translated_vals, tr)
                 /\ attempt' = 0
                 /\ fallback_at' = IF done THEN 0 ELSE fallback_at + 1
                 /\ tm_pc' = IF done THEN "store" ELSE "fallback"
              \/ /\ attempt + 1 < FallbackAttempts
                 /\ attempt' = attempt + 1
                 /\ UNCHANGED <<translated_vals, fallback_at, tm_pc>>
              \/ /\ attempt + 1 = FallbackAttempts
                 /\ translated_vals' = Append(translated_vals, t)
                 /\ attempt' = 0
                 /\ fallback_at' = IF done THEN 0 ELSE fallback_at + 1
                 /\ tm_pc' = IF done THEN "store" ELSE "fallback"
    /\ UNCHANGED <<to_resolve, tm_cache, batches, batch_no, batch_outcome, cache_file,
                   tm_driver, batch_calls, fix_at, fixed_vals,
                   gate_vars, span_vars, code_vars, site_vars, group_vars, bb_vars, main_vars,
                   stack_vars, one_vars, sc_vars>>

\* lines 143-144: the results of the batch go into the cache, and the loop
\* goes on to the next batch
Store ==
    /\ tm_pc = "store"
    /\ tm_cache' =
          [k \in DOMAIN tm_cache \cup {BatchVals[j] : j \in 1..Len(BatchVals)} |->
              IF \E j \in 1..Len(BatchVals) : BatchVals[j] = k
              THEN translated_vals[Max({j \in 1..Len(BatchVals) : BatchVals[j] = k})]
              ELSE tm_cache[k]]
    /\ translated_vals' = <<>>
    /\ call' = <<>>
    /\ attempt' = 0
    /\ batch_no' = IF batch_no < Len(batches) THEN batch_no + 1 ELSE batch_no
    /\ tm_pc' = IF batch_no < Len(batches) THEN "batch" ELSE "done"
    /\ batch_outcome' = "none"
    /\ batch_calls' = 0
    /\ frag_calls' = 0
    /\ fixed_vals' = <<>>
    /\ UNCHANGED <<to_resolve, batches, fallback_at, cache_file, tm_driver, fix_at,
                   gate_vars, span_vars, code_vars, site_vars, group_vars, bb_vars, main_vars,
                   stack_vars, one_vars, sc_vars>>

\* main after translate_missing has returned: the cache is written to its
\* file as a whole (line 262; line 552 of the comment driver)
WriteCache ==
    /\ tm_pc = "done"
    /\ cache_file' = tm_cache
    /\ tm_pc' = "written"
    /\ UNCHANGED <<to_resolve, tm_cache, batches, batch_no, attempt, fallback_at,
                   translated_vals, call, batch_outcome,
                   gate_vars, span_vars, code_vars, site_vars, group_vars, bb_vars, main_vars,
                   stack_vars, one_vars, rs_vars, sc_vars>>

MissingNext == Begin \/ BatchCall \/ FallbackCall \/ Store \/ WriteCache

SpecMissing == MissingInit /\ [][MissingNext]_vars

\* C4: once a fragment text has an entry in the cache, loaded at the start
\* or written by translate_missing, no later backend call of the run, batch
\* or single-fragment, carries that text again.
C4_NoCallForCachedText ==
    \A k \in 1..Len(call) : call[k] \notin DOMAIN tm_cache

\* C13: when the answer to a batch payload cannot be parsed, translate_missing
\* does not send the batch again: its next step is the translation of the
\* batch's fragments one by one.
C13_UnparsableGoesToFallback ==
    batch_outcome = "unparsable" => tm_pc = "fallback"

\* while a batch is in flight, the batches before it, whose results are in
\* the cache in memory; after the cache file has been written, all of them
CompletedBatches ==
    IF tm_pc \in {"batch", "fallback"} THEN 1..(batch_no - 1)
    ELSE IF tm_pc = "written" THEN 1..Len(batches)
    ELSE {}

\* C14: wherever the run stops, the cache file holds a translation for every
\* fragment of every batch that was complete before the batch in flight,
\* and no entry of the file has been lost.
C14_CompletedBatchesOnDisk ==
    \A b \in CompletedBatches : \A k \in 1..Len(batches[b]) :
        batches[b][k][2] \in DOMAIN cache_file

\* ------------------------------------------------------------------------
\* SpecBatches: build_batches of either driver on lists of items
\* ------------------------------------------------------------------------

\* the number of items of a list of mixed fragments
MaxItems == 3

\* the number of items of a list of empty fragments, which takes the markers
\* to two digits
ManyItems == 11

\* the empty fragment, a short one, one of twelve characters and a long
\* paragraph
BatchFragments ==
    { <<>>, <<"a","b">>, <<"a","b","c","d","e","f","g","h","i","j","k","l">>, LongText }

\* the default budget and budgets that a few short fragments fill
BatchBudgets == { DefaultMaxLen, 28, 40, 100 }

\* items as translate_missing numbers them: <<position, text>>
ItemsOf(texts) == [k \in 1..Len(texts) |-> <<k - 1, texts[k]>>]

BatchInputs ==
    ListsOf(BatchFragments, MaxItems)
        \cup {[k \in 1..n |-> <<>>] : n \in (ManyItems - 1)..(ManyItems + 1)}

BatchesInit ==
    /\ bb_items \in {ItemsOf(texts) : texts \in BatchInputs}
    /\ bb_max_len \in BatchBudgets
    /\ bb_driver \in {"prose", "comments"}
    /\ bb_batches = <<>>
    /\ bb_pc = "input"
    /\ GateIdle /\ SpanIdle /\ CodeIdle /\ SiteIdle /\ GroupIdle /\ MissingIdle /\ MainIdle
    /\ ClassifyIdle /\ ResolveIdle /\ OneIdle /\ StackIdle

\* a call of build_batches(items, max_len)
BuildBatches ==
    /\ bb_pc = "input"
    /\ bb_batches' = IF bb_driver = "prose"
                     THEN build_batches_prose(bb_items, bb_max_len)
                     ELSE build_batches_comments(bb_items, bb_max_len)
    /\ bb_pc' = "done"
    /\ UNCHANGED <<bb_items, bb_max_len, bb_driver, gate_vars, span_vars, code_vars,
                   site_vars, group_vars, tm_vars, main_vars, stack_vars, one_vars, rs_vars,
                   sc_vars>>

SpecBatches == BatchesInit /\ [][BuildBatches]_vars

\* the texts of the items of a batch
TextsOfBatch(batch) == [k \in 1..Len(batch) |-> batch[k][2]]

\* C11: each batch build_batches returns encodes to a payload, one marker
\* for each fragment, the fragments and the end-marker, that is not longer
\* than max_len.
C11_BatchWithinBudget ==
    bb_pc = "done" =>
        \A b \in 1..Len(bb_batches) :
            Len(build_payload(TextsOfBatch(bb_batches[b]))) <= bb_max_len

\* C12: the batches build_batches returns, put one after the other, are the
\* list of items it was given, nothing dropped, doubled or moved, and no
\* batch is empty; for the build_batches of both drivers.
C12_BatchesKeepItems ==
    bb_pc = "done" =>
        /\ Concat(bb_batches) = bb_items
        /\ \A b \in 1..Len(bb_batches) : bb_batches[b] # <<>>

\* the build_batches of the comment driver has split a list into batches
C12_Witness ==
    /\ bb_pc = "done"
    /\ bb_driver = "comments"
    /\ Len(bb_batches) >= 2
    /\ Len(bb_items) >= MaxItems

\* ------------------------------------------------------------------------
\* SpecMain: main of either driver, step by step, on a site of a few files.
\* A file is either unreadable (read_text raises) or holds a set of
\* fragments that the file pass would collect.
\* ------------------------------------------------------------------------

\* the number of files of the site
MaxFiles == 2

\* `i % 10 == 0` at line 257 of translate_learncpp_pl.py
ProseWriteEvery == 10

\* `i % 25 == 0` at line 563 of translate_code_comments_pl.py
CommentsWriteEvery == 25

\* a file that does not exist
AbsentFile == [kind |-> "absent", map |-> <<>>]

\* a file that exists and that json.loads cannot parse
CorruptFile == [kind |-> "corrupt", map |-> <<>>]

\* a file that holds the JSON of a dict
JsonFile(map) == [kind |-> "map", map |-> map]

\* cache files: none, a corrupt one, one with a sound entry, one whose entry
\* echoes its key and one whose entry is empty
MainCacheFiles ==
    { AbsentFile, CorruptFile,
      JsonFile([k \in {HelloThere} |-> Czesc]),
      JsonFile([k \in {HelloThere} |-> HelloThere]),
      JsonFile([k \in {HelloThere, ReturnValue} |->
                    IF k = HelloThere THEN Czesc ELSE <<>>]) }

\* seed cache files: none, a corrupt one and one with a sound entry
MainSeedFiles ==
    { AbsentFile, CorruptFile, JsonFile([k \in {ReturnValue} |-> ZwrocWartosc]) }

\* the documents: one that cannot be read and two that can
MainDocuments ==
    { [readable |-> FALSE, texts |-> {}],
      [readable |-> TRUE, texts |-> {HelloThere}],
      [readable |-> TRUE, texts |-> {HelloThere, ReturnValue}] }

MainInit ==
    /\ m_driver \in {"prose", "comments"}
    /\ m_seed \in IF m_driver = "comments" THEN MainSeedFiles ELSE {AbsentFile}
    /\ m_disk \in MainCacheFiles
    /\ m_files \in ListsOf(MainDocuments, MaxFiles)
    /\ m_cache = <<>>
    /\ m_missing = {}
    /\ m_i = 0
    /\ m_handled = {}
    /\ m_errors = {}
    /\ m_requested = {}
    /\ m_pc = IF m_driver = "comments" THEN "seed" ELSE "cache"
    /\ m_crash = "none"
    /\ GateIdle /\ SpanIdle /\ CodeIdle /\ SiteIdle /\ GroupIdle /\ MissingIdle /\ OneIdle
    /\ ClassifyIdle /\ ResolveIdle /\ BatchesIdle /\ StackIdle

\* lines 521-526 of translate_code_comments_pl.py: the seed cache, when it
\* is there and can be parsed
LoadSeed ==
    /\ m_pc = "seed"
    /\ m_cache' = IF m_seed.kind = "map" THEN cache_set(m_cache, m_seed.map) ELSE m_cache
    /\ m_pc' = "cache"
    /\ UNCHANGED <<m_driver, m_seed, m_disk, m_files, m_missing, m_i, m_handled, m_errors,
                   m_requested, m_crash,
                   gate_vars, span_vars, code_vars, site_vars, group_vars, tm_vars, bb_vars,
                   stack_vars, one_vars, rs_vars, sc_vars>>

\* the cache file is loaded: lines 243-246 of translate_learncpp_pl.py, where
\* json.loads is not guarded, and lines 528-532 of
\* translate_code_comments_pl.py, where it is
LoadCache ==
    /\ m_pc = "cache"
    /\ IF m_driver = "prose"
       THEN IF m_disk.kind = "corrupt"
            THEN /\ m_pc' = "crashed"
                 /\ m_crash' = "cache"
                 /\ UNCHANGED m_cache
            ELSE /\ m_cache' = m_disk.map
                 /\ m_pc' = "process"
                 /\ UNCHANGED m_crash
       ELSE /\ m_cache' = IF m_disk.kind = "map" THEN cache_set(m_cache, m_disk.map)
                          ELSE m_cache
            /\ m_pc' = "purge"
            /\ UNCHANGED m_crash
    /\ UNCHANGED <<m_driver, m_seed, m_disk, m_files, m_missing, m_i, m_handled, m_errors,
                   m_requested,
                   gate_vars, span_vars, code_vars, site_vars, group_vars, tm_vars, bb_vars,
                   stack_vars, one_vars, rs_vars, sc_vars>>

\* lines 534-540 of translate_code_comments_pl.py: the stale entries go
Purge ==
    /\ m_pc = "purge"
    /\ m_cache' = purge_stale(m_cache)
    /\ m_pc' = "scan"
    /\ UNCHANGED <<m_driver, m_seed, m_disk, m_files, m_missing, m_i, m_handled, m_errors,
                   m_requested, m_crash,
                   gate_vars, span_vars, code_vars, site_vars, group_vars, tm_vars, bb_vars,
                   stack_vars, one_vars, rs_vars, sc_vars>>

\* lines 543-544 of translate_code_comments_pl.py: collect_missing_from_file
\* on the next file; the loop has no try, so that an exception of read_text
\* leaves main
ScanFile ==
    /\ m_pc = "scan"
    /\ m_i < Len(m_files)
    /\ IF m_files[m_i + 1].readable
       THEN /\ m_missing' = m_missing \cup (m_files[m_i + 1].texts \ DOMAIN m_cache)
            /\ m_i' = m_i + 1
            /\ UNCHANGED <<m_pc, m_crash>>
       ELSE /\ m_pc' = "crashed"
            /\ m_crash' = "scan"
            /\ UNCHANGED <<m_missing, m_i>>
    /\ UNCHANGED <<m_driver, m_seed, m_disk, m_files, m_cache, m_handled, m_errors,
                   m_requested,
                   gate_vars, span_vars, code_vars, site_vars, group_vars, tm_vars, bb_vars,
                   stack_vars, one_vars, rs_vars, sc_vars>>

\* lines 548-554 of translate_code_comments_pl.py: the missing fragments are
\* translated and the cache is written
TranslateMissing ==
    /\ m_pc = "scan"
    /\ m_i = Len(m_files)
    /\ IF m_missing # {}
       THEN \E tr \in Resolutions(m_missing) :
               /\ m_cache' = cache_set(m_cache, tr)
               /\ m_disk' = JsonFile(cache_set(m_cache, tr))
               /\ m_requested' = m_requested \cup m_missing
       ELSE UNCHANGED <<m_cache, m_disk, m_requested>>
    /\ m_i' = 0
    /\ m_pc' = "process"
    /\ UNCHANGED <<m_driver, m_seed, m_files, m_missing, m_handled, m_errors, m_crash,
                   gate_vars, span_vars, code_vars, site_vars, group_vars, tm_vars, bb_vars,
                   stack_vars, one_vars, rs_vars, sc_vars>>

\* lines 250-259 of translate_learncpp_pl.py and 557-565 of
\* translate_code_comments_pl.py: process_file on the next file inside try,
\* and the periodic write of the cache
ProcessFile ==
    /\ m_pc = "process"
    /\ m_i < Len(m_files)
    /\ LET i       == m_i + 1
           f       == m_files[i]
           every   == IF m_driver = "prose" THEN ProseWriteEvery ELSE CommentsWriteEvery
           missing == IF m_driver = "prose" /\ f.readable THEN f.texts \ DOMAIN m_cache
                      ELSE {}
       IN  \E tr \in Resolutions(missing) :
               /\ m_cache' = cache_set(m_cache, tr)
               /\ m_requested' = m_requested \cup missing
               /\ m_handled' = IF f.readable THEN m_handled \cup {i} ELSE m_handled
               /\ m_errors' = IF f.readable THEN m_errors ELSE m_errors \cup {i}
               /\ m_disk' = IF i % every = 0 \/ i = Len(m_files)
                            THEN JsonFile(cache_set(m_cache, tr))
                            ELSE m_disk
               /\ m_i' = i
    /\ UNCHANGED <<m_driver, m_seed, m_files, m_missing, m_pc, m_crash,
                   gate_vars, span_vars, code_vars, site_vars, group_vars, tm_vars, bb_vars,
                   stack_vars, one_vars, rs_vars, sc_vars>>

\* line 262 of translate_learncpp_pl.py and line 568 of
\* translate_code_comments_pl.py: the last write of the cache
FinalWrite ==
    /\ m_pc = "process"
    /\ m_i = Len(m_files)
    /\ m_disk' = JsonFile(m_cache)
    /\ m_pc' = "done"
    /\ UNCHANGED <<m_driver, m_seed, m_files, m_cache, m_missing, m_i, m_handled, m_errors,
                   m_requested, m_crash,
                   gate_vars, span_vars, code_vars, site_vars, group_vars, tm_vars, bb_vars,
                   stack_vars, one_vars, rs_vars, sc_vars>>

MainNext ==
    LoadSeed \/ LoadCache \/ Purge \/ ScanFile \/ TranslateMissing \/ ProcessFile \/ FinalWrite

SpecMain == MainInit /\ [][MainNext]_vars

\* the entries of the seed cache, when it can be parsed
SeedEntries == IF m_seed.kind = "map" THEN m_seed.map ELSE <<>>

\* C15: a cache file that is there and cannot be parsed does not end the run
\* of either driver: the run goes on with an empty cache, or with the seed's
\* entries where there is a seed.
C15_CorruptCacheNotFatal ==
    /\ m_crash # "cache"
    /\ m_disk = CorruptFile /\ m_pc \in {"purge", "process"} => m_cache = SeedEntries

\* C16: a file that cannot be read ends neither the scan phase nor the
\* rewrite phase of a driver: the file is skipped with an ERROR line, the
\* other files are processed and the cache is written at the end.
C16_BadFileNotFatal ==
    /\ m_crash # "scan"
    /\ m_pc = "done" =>
          /\ m_disk = JsonFile(m_cache)
          /\ \A i \in 1..Len(m_files) :
                IF m_files[i].readable THEN i \in m_handled ELSE i \in m_errors

\* the point of main where the cache has been loaded and nothing was looked
\* up in it
AfterLoad ==
    /\ m_i = 0
    /\ m_requested = {}
    /\ \/ m_driver = "comments" /\ m_pc = "scan"
       \/ m_driver = "prose" /\ m_pc = "process"

\* the entries main has read: the seed's, then the cache file's
LoadedEntries ==
    IF m_disk.kind = "map" THEN cache_set(SeedEntries, m_disk.map) ELSE SeedEntries

\* C17: when a driver has loaded the cache, no entry of the cache in memory
\* fails the Quality Gate against its key, and each loaded entry that
\* passes the gate is there.
C17_PurgeOnLoad ==
    AfterLoad =>
        /\ \A k \in DOMAIN m_cache : ~is_bad_translation(k, m_cache[k])
        /\ \A k \in DOMAIN LoadedEntries :
              ~is_bad_translation(k, LoadedEntries[k]) =>
                  k \in DOMAIN m_cache /\ m_cache[k] = LoadedEntries[k]

\* ------------------------------------------------------------------------
\* SpecStack: the Tag Context Stack of process_file over sequences of tag
\* tokens whose kinds are known by construction
\* ------------------------------------------------------------------------

\* the number of tag tokens of a document
MaxTags == 3

\* a tag token: its text, and what it is: the start tag of a name that is
\* not self-closing ("open"), an end tag ("close"), or anything else
TagToken(text, kind, name) == [text |-> text, kind |-> kind, name |-> name]

PreName == <<"p","r","e">>

CodeName == <<"c","o","d","e">>

TagTokens ==
    { TagToken(<<"<","p","r","e",">">>, "open", PreName),
      TagToken(<<"<","P","R","E"," ","i","d","=","x",">">>, "open", PreName),
      TagToken(<<"<","c","o","d","e",">">>, "open", CodeName),
      TagToken(<<"<","/","p","r","e",">">>, "close", PreName),
      TagToken(<<"<","/","C","o","d","e"," ",">">>, "close", CodeName),
      TagToken(<<"<","p","r","e","/",">">>, "other", PreName),
      TagToken(<<"<","p",">">>, "open", <<"p">>),
      TagToken(<<"<","/","p",">">>, "close", <<"p">>),
      TagToken(<<"<","!","-","-","p","r","e","-","-",">">>, "other", <<>>),
      TagToken(<<"<","!","D","O","C","T","Y","P","E"," ","p","r","e",">">>, "other", <<>>),
      TagToken(<<"<","?","p","r","e","?",">">>, "other", <<>>) }

StackInit ==
    /\ st_tokens \in ListsOf(TagTokens, MaxTags)
    /\ st_pos = 0
    /\ st_stack = <<>>
    /\ GateIdle /\ SpanIdle /\ CodeIdle /\ SiteIdle /\ GroupIdle /\ MissingIdle /\ ResolveIdle
    /\ ClassifyIdle /\ BatchesIdle /\ OneIdle /\ MainIdle

\* lines 156-163 of process_file: the loop meets the next tag token
StepTag ==
    /\ st_pos < Len(st_tokens)
    /\ st_stack' = step_skip_stack(st_stack, st_tokens[st_pos + 1].text)
    /\ st_pos' = st_pos + 1
    /\ UNCHANGED <<st_tokens, gate_vars, span_vars, code_vars, site_vars, group_vars, tm_vars,
                   bb_vars, main_vars, one_vars, rs_vars, sc_vars>>

SpecStack == StackInit /\ [][StepTag]_vars

RECURSIVE StackAfter(_, _)
\* the stack the discipline gives after the first n tokens: a start tag of
\* an opaque name pushes the name, an end tag whose name is on top pops it,
\* every other token leaves it
StackAfter(tokens, n) ==
    IF n = 0 THEN <<>>
    ELSE LET prev   == StackAfter(tokens, n - 1)
             t      == tokens[n]
         IN  IF t.kind = "open" /\ t.name \in SKIP_TAGS THEN Append(prev, t.name)
             ELSE IF t.kind = "close" /\ prev # <<>> /\ prev[Len(prev)] = t.name
             THEN SubSeq(prev, 1, Len(prev) - 1)
             ELSE prev

\* C18: over every sequence of tag tokens the stack holds opaque names only;
\* a name is pushed exactly on a start tag of an opaque name that does not
\* end with "/>", the top is popped exactly on an end tag of the name on
\* top, and every other tag token leaves the stack as it is.
C18_StackDiscipline ==
    /\ st_stack = StackAfter(st_tokens, st_pos)
    /\ \A k \in 1..Len(st_stack) : st_stack[k] \in SKIP_TAGS

\* an end tag whose name is not on top of the stack has been met
C18_Witness ==
    /\ st_pos >= 2
    /\ st_tokens[st_pos].kind = "close"
    /\ st_tokens[st_pos].name \in SKIP_TAGS
    /\ st_stack # <<>>
    /\ st_stack[Len(st_stack)] # st_tokens[st_pos].name
    /\ \E k \in 1..(st_pos - 1) : st_tokens[k].kind = "other"

\* ------------------------------------------------------------------------
\* SpecOne: translate_one on a fragment, with backends that raise or return
\* a candidate
\* ------------------------------------------------------------------------

\* range(4) at line 344: the attempts on one backend
OneAttempts == 4

\* "the object is dead"
ObjectIsDead ==
    <<"t","h","e"," ","o","b","j","e","c","t"," ","i","s"," ","d","e","a","d">>

\* "obiekt jest martwy"
ObiektJestMartwy == <<"o","b","i","e","k","t"," ">> \o JEST_MARTWY

\* " obiekt nie zyje ", with white space around it
ObiektNieZyje == <<" ","o","b","i","e","k","t"," ">> \o NIE_ZYJE \o <<" ">>

\* a mis-decoded o-acute
Mojibake == <<"U+00C3","U+00B3">>

\* "obiekt nie  zyje" with two blanks after "nie", and a mis-decoded letter
ObiektNieZyjeWide ==
    <<"o","b","i","e","k","t"," ","n","i","e"," "," ","U+017C","y","j","e"," ">> \o Mojibake

\* the fragments translate_one is called with
OneSources == { ObjectIsDead, ReturnValue }

\* what a backend can return for a fragment: a translation, one with white
\* space around it, the fragment itself, nothing, and two mis-decoded texts
RawCandidates(text) ==
    { ObiektJestMartwy, ObiektNieZyje, text, <<>>, <<"o","b","i","e","k","t"," ">> \o Mojibake,
      ObiektNieZyjeWide }

\* the name of a backend of the tuple of line 343
TranslatorName(k) == IF k = 1 THEN "en" ELSE "auto"

\* every string a backend can return in the model
BackendRaws == UNION {RawCandidates(t) : t \in OneSources}

\* the strings postprocess_translation is applied to at lines 350, 355 and
\* 384: what a backend returned, a fragment, and a candidate kept at line 353
BackendStrings ==
    BackendRaws \cup OneSources \cup {postprocess_translation(r) : r \in BackendRaws}

\* postprocess_translation on each of these strings, computed once
Postprocessed == [t \in BackendStrings |-> postprocess_translation(t)]

\* is_bad_translation on each fragment and candidate, computed once: the
\* triples of a fragment, a candidate and the result
IsBadTranslation ==
    {<<pair[1], pair[2], is_bad_translation(pair[1], pair[2])>> :
        pair \in OneSources \X {Postprocessed[t] : t \in BackendStrings}}

OneInit ==
    /\ o_text \in OneSources
    /\ o_translator = 1
    /\ o_attempt = 0
    /\ o_last = o_text
    /\ o_result = <<>>
    /\ o_calls = <<>>
    /\ o_pc = "run"
    /\ GateIdle /\ SpanIdle /\ CodeIdle /\ SiteIdle /\ GroupIdle /\ MissingIdle /\ ClassifyIdle
    /\ BatchesIdle /\ ResolveIdle /\ MainIdle /\ StackIdle

\* translate_one with a fifth attempt on each backend
CallRaises_five_attempts ==
    /\ o_pc = "run"
    /\ o_translator <= 2
    /\ o_calls' = Append(o_calls, [translator |-> TranslatorName(o_translator),
                                   raised |-> TRUE, raw |-> <<>>])
    /\ IF o_attempt + 1 < OneAttempts + 1
       THEN o_attempt' = o_attempt + 1 /\ UNCHANGED o_translator
       ELSE o_attempt' = 0 /\ o_translator' = o_translator + 1
    /\ UNCHANGED <<o_text, o_last, o_result, o_pc,
                   gate_vars, span_vars, code_vars, site_vars, group_vars, tm_vars, bb_vars,
                   main_vars, stack_vars, rs_vars, sc_vars>>

\* lines 345-353: translator.translate(text) raises, and the loop sleeps and
\* goes to the next attempt, or to the next backend after the last one
CallRaises ==
    /\ o_pc = "run"
    /\ o_translator <= 2
    /\ o_calls' = Append(o_calls, [translator |-> TranslatorName(o_translator),
                                   raised |-> TRUE, raw |-> <<>>])
    /\ IF o_attempt + 1 < OneAttempts
       THEN o_attempt' = o_attempt + 1 /\ UNCHANGED o_translator
       ELSE o_attempt' = 0 /\ o_translator' = o_translator + 1
    /\ UNCHANGED <<o_text, o_last, o_result, o_pc,
                   gate_vars, span_vars, code_vars, site_vars, group_vars, tm_vars, bb_vars,
                   main_vars, stack_vars, rs_vars, sc_vars>>

\* lines 345-351: translator.translate(text) returns a candidate, which is
\* postprocessed and either returned or kept as last
CallReturns ==
    /\ o_pc = "run"
    /\ o_translator <= 2
    /\ \E raw \in RawCandidates(o_text) :
          \E cand \in {Postprocessed[raw]} :
             /\ o_calls' = Append(o_calls, [translator |-> TranslatorName(o_translator),
                                            raised |-> FALSE, raw |-> raw])
             /\ IF <<o_text, cand, FALSE>> \in IsBadTranslation
                THEN /\ o_result' = cand
                     /\ o_pc' = "returned"
                     /\ UNCHANGED <<o_last, o_translator, o_attempt>>
                ELSE /\ o_last' = cand
                     /\ o_translator' = o_translator + 1
                     /\ o_attempt' = 0
                     /\ UNCHANGED <<o_result, o_pc>>
    /\ UNCHANGED <<o_text, gate_vars, span_vars, code_vars, site_vars, group_vars, tm_vars,
                   bb_vars, main_vars, stack_vars, rs_vars, sc_vars>>

\* line 355: both backends are through
ReturnLast ==
    /\ o_pc = "run"
    /\ o_translator = 3
    /\ o_result' = Postprocessed[o_last]
    /\ o_pc' = "returned"
    /\ UNCHANGED <<o_text, o_translator, o_attempt, o_last, o_calls,
                   gate_vars, span_vars, code_vars, site_vars, group_vars, tm_vars, bb_vars,
                   main_vars, stack_vars, rs_vars, sc_vars>>

OneNext == CallRaises \/ CallReturns \/ ReturnLast

SpecOne == OneInit /\ [][OneNext]_vars

\* the candidates the backend calls produced, each postprocessed, in the
\* order of the calls
Candidates ==
    LET Returned(c) == ~c.raised
        produced    == SelectSeq(o_calls, Returned)
    IN  [k \in 1..Len(produced) |-> postprocess_translation(produced[k].raw)]

\* the candidates that pass the Quality Gate
Passing == {k \in 1..Len(Candidates) : ~is_bad_translation(o_text, Candidates[k])}

\* C20 (the order of the backends): every call of the pinned backend comes
\* before every call of the auto-detect backend.
C20_PinnedBackendFirst ==
    \A j, k \in 1..Len(o_calls) :
        j < k => ~(o_calls[j].translator = "auto" /\ o_calls[k].translator = "en")

\* C20: translate_one returns the first postprocessed candidate that passes
\* the Quality Gate; when none passes, the last candidate a backend call
\* produced; and the postprocessed source text only when every call raised.
C20_RetryLadderResult ==
    o_pc = "returned" =>
        /\ C20_PinnedBackendFirst
        /\ Passing # {} => o_result = Candidates[Min(Passing)]
        /\ Passing = {} /\ Candidates # <<>> => o_result = Candidates[Len(Candidates)]
        /\ Candidates = <<>> => o_result = postprocess_translation(o_text)

\* ------------------------------------------------------------------------
\* SpecResolve: translate_missing of either driver. The prose driver runs
\* the steps of SpecMissing; the comment driver shares Begin, the failed
\* attempts on a batch, Store and WriteCache, checks what a batch returned
\* (lines 381-388) and resolves single fragments with translate_one.
\* ------------------------------------------------------------------------

\* the longest list of texts the prose driver resolves here
MaxResolveTexts == 2

\* sorted(missing_set) of the comment driver: lists in code point order
\* that hold no fragment twice
ResolveCommentLists == { <<>>, <<ObjectIsDead>>, <<ReturnValue, ObjectIsDead>> }

\* no cache entry, and an entry for one of the fragments
ResolveCommentCaches == { <<>>, [k \in {ReturnValue} |-> ZwrocWartosc] }

ResolveInit ==
    /\ tm_driver \in {"prose", "comments"}
    /\ to_resolve \in IF tm_driver = "prose" THEN ListsOf(MissingFragments, MaxResolveTexts)
                      ELSE ResolveCommentLists
    /\ tm_cache \in IF tm_driver = "prose" THEN MissingCaches ELSE ResolveCommentCaches
    /\ batches = <<>>
    /\ batch_no = 0
    /\ attempt = 0
    /\ fallback_at = 0
    /\ translated_vals = <<>>
    /\ call = <<>>
    /\ tm_pc = "start"
    /\ batch_outcome = "none"
    /\ cache_file = tm_cache
    /\ batch_calls = 0
    /\ frag_calls = 0
    /\ fix_at = 0
    /\ fixed_vals = <<>>
    /\ GateIdle /\ SpanIdle /\ CodeIdle /\ SiteIdle /\ GroupIdle /\ BatchesIdle /\ MainIdle
    /\ ClassifyIdle /\ StackIdle /\ OneIdle

\* translate_one(text, translator_en, translator_auto) is entered
EnterTranslateOne(text) ==
    /\ o_text' = text
    /\ o_translator' = 1
    /\ o_attempt' = 0
    /\ o_last' = text
    /\ o_result' = <<>>
    /\ o_calls' = <<>>
    /\ o_pc' = "run"

\* translate_one has returned and its caller goes on
LeaveTranslateOne ==
    /\ o_text' = <<>>
    /\ o_translator' = 0
    /\ o_attempt' = 0
    /\ o_last' = <<>>
    /\ o_result' = <<>>
    /\ o_calls' = <<>>
    /\ o_pc' = "idle"

\* what the backend returns for a fragment of a batch: a translation, and
\* the fragment itself
BatchRawCandidates(text) == { ObiektNieZyje, text }

\* lines 370-374 of translate_code_comments_pl.py: translate_group_payload
\* returns a list, one string of the backend for each fragment
BatchReturns ==
    /\ tm_pc = "batch"
    /\ tm_driver = "comments"
    /\ attempt < BatchAttempts
    /\ call' = BatchVals
    /\ batch_calls' = IF attempt = 0 THEN 1 ELSE batch_calls + 1
    /\ \E raw \in [1..Len(BatchVals) ->
                      UNION {BatchRawCandidates(BatchVals[k]) : k \in 1..Len(BatchVals)}] :
          /\ \A k \in 1..Len(BatchVals) : raw[k] \in BatchRawCandidates(BatchVals[k])
          /\ translated_vals' = raw
    /\ batch_outcome' = "ok"
    /\ attempt' = 0
    /\ fix_at' = 1
    /\ fixed_vals' = <<>>
    /\ tm_pc' = "fix"
    /\ UNCHANGED <<to_resolve, tm_cache, batches, batch_no, fallback_at, cache_file, tm_driver,
                   frag_calls,
                   gate_vars, span_vars, code_vars, site_vars, group_vars, bb_vars, main_vars,
                   stack_vars, one_vars, sc_vars>>

\* the loop of lines 382-388 goes to its next pair, or ends at line 388
FixAdvance(tr) ==
    /\ fixed_vals' = IF fix_at = Len(BatchVals) THEN <<>> ELSE Append(fixed_vals, tr)
    /\ translated_vals' = IF fix_at = Len(BatchVals) THEN Append(fixed_vals, tr)
                          ELSE translated_vals
    /\ fix_at' = IF fix_at = Len(BatchVals) THEN 0 ELSE fix_at + 1
    /\ tm_pc' = IF fix_at = Len(BatchVals) THEN "store" ELSE "fix"

\* lines 383-387: a returned string is postprocessed and put before the
\* Quality Gate; translate_one is called for a rejected one. The loop of
\* lines 370-378 is over, and its count of submissions is cleared.
FixStep ==
    /\ tm_pc = "fix"
    /\ o_pc = "idle"
    /\ batch_calls' = 0
    /\ \E tr \in {Postprocessed[translated_vals[fix_at]]} :
          IF <<BatchVals[fix_at], tr, TRUE>> \in IsBadTranslation
          THEN /\ EnterTranslateOne(BatchVals[fix_at])
               /\ UNCHANGED <<fixed_vals, translated_vals, fix_at, tm_pc>>
          ELSE /\ FixAdvance(tr)
               /\ UNCHANGED one_vars
    /\ UNCHANGED <<to_resolve, tm_cache, batches, batch_no, attempt, fallback_at, call,
                   batch_outcome, cache_file, tm_driver, frag_calls,
                   gate_vars, span_vars, code_vars, site_vars, group_vars, bb_vars, main_vars,
                   stack_vars, sc_vars>>

\* lines 386-387: translate_one has returned into the loop
FixOneDone ==
    /\ tm_pc = "fix"
    /\ o_pc = "returned"
    /\ FixAdvance(o_result)
    /\ LeaveTranslateOne
    /\ UNCHANGED <<to_resolve, tm_cache, batches, batch_no, attempt, fallback_at, call,
                   batch_outcome, cache_file, tm_driver, batch_calls, frag_calls,
                   gate_vars, span_vars, code_vars, site_vars, group_vars, bb_vars, main_vars,
                   stack_vars, sc_vars>>

\* line 380: after the last failed attempt on the batch, translate_one is
\* called for the next fragment of the batch
FallbackOne ==
    /\ tm_pc = "fallback"
    /\ tm_driver = "comments"
    /\ o_pc = "idle"
    /\ EnterTranslateOne(BatchVals[fallback_at])
    /\ UNCHANGED <<tm_vars, rs_vars,
                   gate_vars, span_vars, code_vars, site_vars, group_vars, bb_vars, main_vars,
                   stack_vars, sc_vars>>

\* line 380: translate_one has returned into the list
FallbackOneDone ==
    /\ tm_pc = "fallback"
    /\ o_pc = "returned"
    /\ translated_vals' = Append(translated_vals, o_result)
    /\ fallback_at' = IF fallback_at = Len(BatchVals) THEN 0 ELSE fallback_at + 1
    /\ tm_pc' = IF fallback_at = Len(BatchVals) THEN "store" ELSE "fallback"
    /\ LeaveTranslateOne
    /\ UNCHANGED <<to_resolve, tm_cache, batches, batch_no, attempt, call, batch_outcome,
                   cache_file, rs_vars,
                   gate_vars, span_vars, code_vars, site_vars, group_vars, bb_vars, main_vars,
                   stack_vars, sc_vars>>

ResolveNext ==
    \/ MissingNext
    \/ BatchReturns \/ FixStep \/ FixOneDone \/ FallbackOne \/ FallbackOneDone
    \/ OneNext

SpecResolve == ResolveInit /\ [][ResolveNext]_vars

\* translate_missing runs one step after the other, and every sleep ends
SpecResolveLive == SpecResolve /\ WF_vars(ResolveNext)

\* the calls translate_one has made to the backend of the given name
CallsOf(name) == {k \in 1..Len(o_calls) : o_calls[k].translator = name}

\* the payload of the batch in progress was submitted at most 5 times, and
\* the backend was called for the fragment in progress at most 5 times by
\* the prose driver and at most 4 times for each of its two backends by the
\* comment driver
CallBounds ==
    /\ batch_calls <= 5
    /\ tm_driver = "prose" => frag_calls <= 5
    /\ tm_driver = "comments" =>
          /\ Len(o_calls) <= 8
          /\ Cardinality(CallsOf("en")) <= 4
          /\ Cardinality(CallsOf("auto")) <= 4

\* C21: whatever the backend does, translate_missing returns, and on its way
\* it submits the payload of a batch at most 5 times and then calls the
\* backend for one fragment at most 5 times in the prose driver and at most
\* 8 times, 4 for each of the 2 backends, in the comment driver.
C21_BoundedAttempts == []CallBounds /\ <>(tm_pc = "done")

\* the comment driver has submitted a batch 5 times and called the backend
\* 8 times for one fragment, every call having raised
C21_Witness ==
    /\ tm_driver = "comments"
    /\ tm_pc = "fallback"
    /\ batch_calls = 5
    /\ Len(o_calls) = 8
    /\ \A k \in 1..Len(o_calls) : o_calls[k].raised

\* C22: whatever the backend does, when translate_missing returns every
\* element of texts is a key of the cache.
C22_FullResolution ==
    tm_pc \in {"done", "written"} =>
        \A k \in 1..Len(to_resolve) : to_resolve[k] \in DOMAIN tm_cache

\* translate_missing has returned after more than one batch, and a fragment
\* that had no entry stands for its own translation
C22_Witness ==
    /\ tm_pc = "done"
    /\ Len(batches) >= 2
    /\ \E k \in 1..Len(to_resolve) :
          /\ to_resolve[k] \notin DOMAIN cache_file
          /\ to_resolve[k] \in DOMAIN tm_cache
          /\ tm_cache[to_resolve[k]] = to_resolve[k]

\* ------------------------------------------------------------------------
\* SpecClassify: should_translate_comment on fragments of code and of words
\* ------------------------------------------------------------------------

\* the number of pieces of a fragment handed to should_translate_comment
MaxClassPieces == 3

\* five words that are no hint words, a hint word, the marks of code of
\* is_mostly_code_like, and a brace block of digits
ClassPieces ==
    { <<"x","q"," ","z","q"," ","j","q"," ","k","q"," ","v","q"," ">>,
      <<"t","h","e"," ">>,
      <<";">>, <<":",":">>, <<"-",">">>, <<"f","(">>,
      <<"{","0","1","2","3","4","5","6","7","8","9","0","}">>,
      <<"<">> }

ClassifyInit ==
    /\ sc_core \in TextsOf(ClassPieces, MaxClassPieces)
    /\ sc_result = FALSE
    /\ sc_pc = "input"
    /\ GateIdle /\ SpanIdle /\ CodeIdle /\ SiteIdle /\ GroupIdle /\ MissingIdle /\ BatchesIdle
    /\ MainIdle /\ StackIdle /\ OneIdle /\ ResolveIdle

\* should_translate_comment(core) is called and returns
Classify ==
    /\ sc_pc = "input"
    /\ sc_result' = should_translate_comment(sc_core)
    /\ sc_pc' = "judged"
    /\ UNCHANGED <<sc_core, gate_vars, span_vars, code_vars, site_vars, group_vars, tm_vars,
                   bb_vars, main_vars, stack_vars, one_vars, rs_vars>>

SpecClassify == ClassifyInit /\ [][Classify]_vars

\* the fragment looks structurally like code and holds no English hint word
CodeLikeWithoutHint ==
    /\ is_mostly_code_like(strip(sc_core))
    /\ english_score(strip(sc_core)).hits = 0

\* the words of the fragment ([A-Za-z]{2,})
WordsOfCore == WORD_RE_findall(strip(sc_core))

\* more than 55 of 100 characters of the fragment are letters
LetterDense == LetterCount(strip(sc_core)) * 100 > 55 * Len(strip(sc_core))

\* C23: every comment fragment that looks structurally like code and holds
\* no English hint word is rejected by should_translate_comment, whatever
\* its length and number of words.
C23_CodeLikeRejected ==
    (sc_pc = "judged" /\ CodeLikeWithoutHint) => ~sc_result

\* C23 amended: such a fragment is rejected unless it has more than 8 words
\* and more than 55 of 100 of its characters are letters.
C23_CodeLikeRejectedAmended ==
    (sc_pc = "judged" /\ CodeLikeWithoutHint /\ (Len(WordsOfCore) <= 8 \/ ~LetterDense))
        => ~sc_result

\* a code-like fragment of more than 8 words, none of them a hint word, and
\* too few letters has been rejected
C23_Witness ==
    /\ sc_pc = "judged"
    /\ CodeLikeWithoutHint
    /\ Len(WordsOfCore) > 8
    /\ ~LetterDense
    /\ ~sc_result

\* ------------------------------------------------------------------------
\* The frame of rewrite_code_comments (SpecCode)
\* ------------------------------------------------------------------------

\* the body of a comment line once its decoration is taken off: for a line
\* of a block comment, what follows its white space, its "*"s and one
\* white space character
FrameBody(line, kind) ==
    IF kind = "block" /\ BLOCK_DECOR_RE_match(line).matched
    THEN BLOCK_DECOR_RE_match(line).body
    ELSE line

\* the trimmed cores of the comment lines of the element
FrameFragments ==
    LET sp == find_comment_spans(code)
    IN  UNION { LET content == Slice(code, sp[k][1], sp[k][2])
                    lines   == splitlines(content)
                IN  {split_ws(FrameBody(lines[i], sp[k][3])).core : i \in 1..Len(lines)} :
                k \in 1..Len(sp) }

\* a comment in which nothing but the trimmed core of a line is replaced:
\* each line keeps its white space, its line terminator and, in a block
\* comment, its decoration
FrameContent(content, kind) ==
    IF kind = "block"
    THEN LET lines == splitlines_keepends(content)
         IN  Concat([i \in 1..Len(lines) |-> translate_line(lines[i], cache)])
    ELSE translate_body(content, cache)

RECURSIVE FrameRewrite(_, _, _)
\* the text with the last k of its comments replaced that way
FrameRewrite(sp, k, text) ==
    IF k = 0 THEN text
    ELSE LET start == sp[k][1]
             end   == sp[k][2]
         IN  FrameRewrite(sp, k - 1,
                          Slice(text, 0, start)
                              \o FrameContent(Slice(text, start, end), sp[k][3])
                              \o Slice(text, end, Len(text)))

\* C24: rewrite_code_comments leaves every character outside the comment
\* spans unchanged and inside each span changes only the trimmed core of a
\* line; the white space of each comment line, its line terminator and,
\* for every block comment, its leading "*" decoration are the same in the
\* output and are never part of a fragment looked up or submitted.
C24_RewriterFrame ==
    /\ missing_set \subseteq FrameFragments
    /\ code_pc = "done" =>
          updated = FrameRewrite(find_comment_spans(code), Len(find_comment_spans(code)), code)

\* ------------------------------------------------------------------------
\* The entries of the cache during translate_missing (SpecResolve)
\* ------------------------------------------------------------------------

\* every entry of the cache is an entry, with the same value, after the step
EntriesKept ==
    \A k \in DOMAIN tm_cache : k \in DOMAIN tm_cache' /\ tm_cache'[k] = tm_cache[k]

\* the keys that lines 143-144 are about to write, one after the other, are
\* not in the cache and no two of them are the same
WritesToAbsentKeys ==
    /\ \A j \in 1..Len(BatchVals) : BatchVals[j] \notin DOMAIN tm_cache
    /\ \A i, j \in 1..Len(BatchVals) : BatchVals[i] = BatchVals[j] => i = j

\* C25: after loading, no cache entry is removed and no value is replaced
\* by a different one; every write of translate_missing targets a key that
\* is absent from the cache at the moment of the write, in both drivers and
\* for every list of candidates.
C25_WriteOnce ==
    [][EntriesKept /\ (tm_pc = "store" => WritesToAbsentKeys)]_vars

====
